---- MODULE Spec2Model ----
(***************************************************************************)
(* A model of the BlockchainDB storage stack:                              *)
(*   BFile (buffered append file), Header, Bloom, HistoryFile, KFile,      *)
(*   KV (values BFile + KFile), KV2 (PermKV + DynaKV) and KVShard.         *)
(*                                                                         *)
(* Files are sequences of 8-byte words.  A word is a pair <<hi, lo>> of    *)
(* its two big-endian 32-bit halves.  A key ([32]byte) is four words, a    *)
(* DBBKey record (48 bytes) is six words: the key, the offset, the length. *)
(* Offsets, lengths and sizes are counted in words.                        *)
(***************************************************************************)
EXTENDS Integers, Sequences, FiniteSets, TLC

\* ------------------------------------------------------------------------
\* Sizes.  The program's sizes are scaled down so that buffer flushes, key
\* file rewrites, history spills and the inline compress all happen within
\* a few operations.
\* ------------------------------------------------------------------------

\* bytes per word of the model (the width of binary.BigEndian.PutUint64)
WordBytes == 8

\* words of a key, [32]byte
KeyWords == 32 \div WordBytes

\* const DBKeyFullSize = 48
DBKeyFullSize == 48 \div WordBytes

\* const BufferSize = 1024 * 16 bytes, scaled
BufferSize == 8

\* var buffer [10000]byte of KV.Compress, scaled (smaller than BufferSize)
CompressBufferLen == 3

\* const chunkSize = 1024 * 1024 of PopulateBloomFilterFromHistory, scaled;
\* like the program's it is no multiple of the record size
chunkSize == 8

\* NewBloomFilter(10.0, 3): NumBytes = 10 MB scaled, K = 3
BloomNumBytes == 1
BloomK == 3

\* const NumShards = 256, scaled
NumShards == 2

\* "writes > 5000" of KVShard.Put, scaled
CompressWrites == 2

\* the parameters the stores are created with: NewKFile(history, directory,
\* offsetCnt, keyLimit, maxCachedBlocks)
OffsetsCnt == 2
KeyLimit == 2
MaxCachedBlocks == 1

\* bounds of the exploration
MaxKFilePuts == 5
MaxRewritePuts == 6
MaxKVPuts == 3
MaxKV2Puts == 4
MaxShardPuts == 4
MaxAddKeys == 4
MaxBatch == 2
\* the spills of the KFile that two threads use
MaxPushes == 2
\* database/kfile.go spills when KeyCnt > 100 + fr.UintN(KeyBreak): the 100,
\* KeyBreak, the Puts of a run and the numbers the generator is asked for
MinKeys == 1
KeyBreak == 2
MaxAsyncPuts == 4
FrLen == 4
\* the Puts of the threads of a KVShard
MaxThreadPuts == 3
MaxBFWrites == 3
\* the largest offset and length of the records that are encoded and decoded
MaxNumber == 2147483646
MaxBloomBytes == 2
MaxBloomK == 4

\* ------------------------------------------------------------------------
\* Words, keys, values, descriptors
\* ------------------------------------------------------------------------
Two16 == 65536

\* Op of the value v: v is computed once, whatever the number of times Op
\* uses it
With(v, Op(_)) == Op(v)

Min(a, b) == IF a < b THEN a ELSE b

\* binary.BigEndian.PutUint64: the two 32-bit halves of x
PutUint64(x) ==
    LET hi == (x \div Two16) \div Two16
    IN  <<hi, x - (hi * Two16) * Two16>>

\* binary.BigEndian.Uint64
Uint64(w) == (w[1] * Two16) * Two16 + w[2]

\* a word of zero bytes
ZeroWord == <<0, 0>>

Zeros(n) == [i \in 1..n |-> ZeroWord]

\* var nilKey [32]byte
nilKey == [i \in 1..KeyWords |-> ZeroWord]

\* A key whose bytes 0..3 are b, bytes 4..7 are s, bytes 8..15 are the
\* number h1, bytes 16..23 the number h2, and whose other bytes are zero.
MkKey(b, s, h1, h2) == <<<<b, s>>, <<0, h1>>, <<0, h2>>, ZeroWord>>

KeyA == MkKey(0, 0, 1, 0)
KeyB == MkKey(1, 0, 2, 0)
KeyC == MkKey(2, 1, 1, 3)
\* KeyD is never written; its Bloom bits are among those of KeyA and KeyB
KeyD == MkKey(0, 1, 2, 0)

\* a third key of the shard of KeyA and KeyB
KeyE == MkKey(2, 0, 3, 0)

Keys == {KeyA, KeyB, KeyC}
ProbeKeys == Keys \cup {KeyD}

\* values, as sequences of words
Val1 == <<<<0, 1>>>>
Val2 == <<<<0, 2>>, <<0, 2>>>>
Val3 == <<<<0, 3>>, <<0, 3>>, <<0, 3>>, <<0, 3>>>>

Values == {Val1, Val2}
LongValues == {Val1, Val2, Val3}

\* descriptors given to KFile.Put directly
NewDBBKey(off, len) == [Offset |-> off, Length |-> len]
Descriptors == {NewDBBKey(0, 1), NewDBBKey(1, 2)}

\* DBBKey.Bytes
Bytes(d, address) == address \o <<PutUint64(d.Offset), PutUint64(d.Length)>>

\* Unmarshal that reads the length from the bytes of the offset
UnmarshalOneField(data) ==
    IF Len(data) < DBKeyFullSize
    THEN [address |-> nilKey, d |-> NewDBBKey(0, 0), err |-> "short"]
    ELSE [address |-> SubSeq(data, 1, KeyWords),
          d |-> NewDBBKey(Uint64(data[KeyWords + 1]), Uint64(data[KeyWords + 1])),
          err |-> "nil"]

\* DBBKey.Unmarshal: the address and the DBBKey of the first record of data
Unmarshal(data) ==
    IF Len(data) < DBKeyFullSize
    THEN [address |-> nilKey, d |-> NewDBBKey(0, 0), err |-> "short"]
    ELSE [address |-> SubSeq(data, 1, KeyWords),
          d |-> NewDBBKey(Uint64(data[KeyWords + 1]), Uint64(data[KeyWords + 2])),
          err |-> "nil"]

\* ------------------------------------------------------------------------
\* BFile: a file on disk, the handle on it, and the append buffer
\*   File   TRUE while the handle is open (b.File != nil)
\*   disk   the words of the file Filename names
\*   Buffer the words b.Buffer[:b.EOB]
\*   EOD    b.EOD
\* ------------------------------------------------------------------------
EOB(b) == Len(b.Buffer)

NewBFile == [File |-> TRUE, disk |-> <<>>, Buffer |-> <<>>, EOD |-> 0]

OpenBFile(disk) == [File |-> TRUE, disk |-> disk, Buffer |-> <<>>, EOD |-> Len(disk)]

BFileOpen(b) ==
    IF b.File THEN b
    ELSE [b EXCEPT !.File = TRUE, !.EOD = Len(b.disk)]

\* Flush that resets the buffer without writing it
BFileFlushDrop(b) == [BFileOpen(b) EXCEPT !.Buffer = <<>>]

BFileFlush(b) ==
    LET o == BFileOpen(b)
    IN  [o EXCEPT !.disk = @ \o o.Buffer,
                  !.EOD = Len(o.disk) + Len(o.Buffer),
                  !.Buffer = <<>>]

BFileClose(b) == [BFileFlush(b) EXCEPT !.File = FALSE]

\* the error of a File.Write that fails and writes nothing
IOError == "input/output error"

\* Flush when File.Write fails: the file is open, EOD is what Seek returned,
\* the buffer is as it was
BFileFlushFails(b) ==
    [b |-> [BFileOpen(b) EXCEPT !.EOD = Len(b.disk)], err |-> IOError]

\* Offset: b.File.Stat() fails on a closed handle
BFileOffset(b) ==
    IF ~b.File THEN [offset |-> 0, err |-> "invalid"]
    ELSE [offset |-> Len(b.disk) + EOB(b), err |-> "nil"]

RECURSIVE BFileWrite(_, _)
BFileWrite(b, Data) ==
    LET space == BufferSize - EOB(b)
    IN  IF Len(Data) <= space
        THEN [b |-> [b EXCEPT !.Buffer = @ \o Data], update |-> FALSE]
        ELSE LET o    == BFileOpen(b)
                 n    == IF space > 0 THEN space ELSE 0
                 full == o.Buffer \o SubSeq(Data, 1, n)
                 rest == SubSeq(Data, n + 1, Len(Data))
             IN  With([o EXCEPT !.disk = @ \o full,
                                !.EOD = Len(o.disk) + Len(full),
                                !.Buffer = <<>>], LAMBDA w :
                     IF Len(rest) > 0
                     THEN [b |-> BFileWrite(w, rest).b, update |-> TRUE]
                     ELSE [b |-> w, update |-> TRUE])

\* Write of more than the buffer has room for, when File.Write fails: the
\* buffer has been filled, nothing has been written
BFileWriteFails(b, Data) ==
    LET space == BufferSize - EOB(b)
        n     == IF space > 0 THEN space ELSE 0
    IN  [b |-> [BFileOpen(b) EXCEPT !.Buffer = @ \o SubSeq(Data, 1, n),
                                    !.EOD = Len(b.disk)],
         update |-> FALSE, err |-> IOError]

\* the words of old with data written over them from offset on
Overwrite(old, offset, data) ==
    LET n == IF Len(old) > offset + Len(data) THEN Len(old) ELSE offset + Len(data)
    IN  [i \in 1..n |->
            IF i > offset /\ i <= offset + Len(data) THEN data[i - offset]
            ELSE IF i <= Len(old) THEN old[i]
            ELSE ZeroWord]

BFileWriteAt(b, offset, data) ==
    With(Overwrite(b.disk, offset, data), LAMBDA d :
        [BFileOpen(b) EXCEPT !.disk = d, !.EOD = Len(d)])

\* File.Seek(offset) then File.Read(data): what is there, the rest stays zero
FileRead(disk, offset, n) ==
    IF n > 0 /\ offset >= Len(disk)
    THEN [data |-> Zeros(n), err |-> "EOF"]
    ELSE LET got == SubSeq(disk, offset + 1, Min(offset + n, Len(disk)))
         IN  [data |-> got \o Zeros(n - Len(got)), err |-> "nil"]

\* ReadAt that reads the file and never the buffer
BFileReadDisk(b, offset, n) ==
    With(FileRead(b.disk, offset, n), LAMBDA r :
        [b |-> BFileOpen(b), data |-> r.data, err |-> r.err])

RECURSIVE BFileReadAt(_, _, _)
BFileReadAt(b, offset, n) ==
    LET DataLastOffset == offset + n
    IN  IF DataLastOffset <= b.EOD
        THEN LET o == BFileOpen(b)
                 r == FileRead(o.disk, offset, n)
             IN  [b |-> o, data |-> r.data, err |-> r.err]
        ELSE IF DataLastOffset > EOB(b) + b.EOD
        THEN [b |-> b, data |-> Zeros(n), err |-> "EOF"]
        ELSE IF offset > b.EOD
        THEN [b |-> b,
              data |-> SubSeq(b.Buffer, offset - b.EOD + 1, offset - b.EOD + n),
              err |-> "nil"]
        ELSE With(BFileReadAt(b, offset, b.EOD - offset), LAMBDA r :
                 [b |-> r.b,
                  data |-> r.data \o SubSeq(b.Buffer, 1, n - (b.EOD - offset)),
                  err |-> r.err])

\* ------------------------------------------------------------------------
\* Header: the offset table of the key file
\* ------------------------------------------------------------------------

\* Header.Init: OffsetsCnt*8 + 4 + 4 + 8 bytes
HeaderInit(offsetsCnt) ==
    LET size == (offsetsCnt * 8 + 4 + 4 + 8) \div WordBytes
    IN  [OffsetsCnt |-> offsetsCnt,
         HeaderSize |-> size,
         Offsets    |-> [i \in 1..offsetsCnt |-> size],
         EndOfList  |-> size]

\* Header.Marshal: the two 32-bit counts share the first word
HeaderMarshal(h) ==
    IF h.HeaderSize = 0 THEN <<>>
    ELSE <<<<h.OffsetsCnt, h.HeaderSize>>>>
         \o [i \in 1..Len(h.Offsets) |-> PutUint64(h.Offsets[i])]
         \o <<PutUint64(h.EndOfList)>>

\* Header.OffsetIndex: binary.BigEndian.Uint32(key[IndexOffsets:]) % OffsetsCnt
OffsetIndex(offsetsCnt, key) == key[1][1] % offsetsCnt

\* ShardIndex: binary.BigEndian.Uint32(key[IndexShards:]) % NumShards
ShardIndex(key) == key[1][2] % NumShards

\* ------------------------------------------------------------------------
\* Bloom filter.  Map is the set of the bits that are set, each a pair
\* <<Index, bit number within the byte>>.
\* ------------------------------------------------------------------------
NilBloom == [nil |-> TRUE, NumBytes |-> 0, K |-> 0, Map |-> {}]

\* NewBloomFilter(size, k), for a size of numBytes bytes
NewBloomFilter(numBytes, k) == [nil |-> FALSE, NumBytes |-> numBytes, K |-> k, Map |-> {}]

\* the 64-bit number of word w modulo m (m below 2^15)
Mod64(w, m) ==
    (((w[1] % m) * (((Two16 % m) * (Two16 % m)) % m)) + (w[2] % m)) % m

\* v % (b.NumBytes << 8) of ByteMask divides by zero in a filter of no bytes
ByteMaskPanics(b) == b.NumBytes = 0

ByteMask(b, key, hashNum) ==
    LET offset == (hashNum * 8) % 24
        v      == Mod64(key[(offset \div WordBytes) + 1], b.NumBytes * 256)
    IN  <<v \div 256, (v % 256) % 8>>

BloomTest(b, key) == \A i \in 0..(b.K - 1) : ByteMask(b, key, i) \in b.Map

BloomSet(b, key) ==
    [b EXCEPT !.Map = @ \cup {ByteMask(b, key, i) : i \in 0..(b.K - 1)}]

\* ------------------------------------------------------------------------
\* HistoryFile
\*   File         the words of history.dat (written unbuffered)
\*   KeySets      [Start, End] of every key set, in key index order
\*   KeySetOffset the same key sets in file offset order, as indices
\*                into KeySets
\* The 4-byte count of the header takes the first word of the file.
\* ------------------------------------------------------------------------
KeySetSize == 16

NilHistory ==
    [nil |-> TRUE, File |-> <<>>, HeaderSize |-> 0, OffsetCnt |-> 0,
     KeySets |-> <<>>, KeySetOffset |-> <<>>]

HFMarshal(hf) ==
    LET ks(i) == hf.KeySets[i]
        n     == KeySetSize \div WordBytes
    IN  <<<<0, hf.OffsetCnt>>>>
        \o [j \in 1..(n * hf.OffsetCnt) |->
               IF (j - 1) % n = 0 THEN PutUint64(ks(((j - 1) \div n) + 1).Start)
               ELSE PutUint64(ks(((j - 1) \div n) + 1).End)]

NewHistoryFile(offsetCnt) ==
    LET size == 1 + (KeySetSize \div WordBytes) * offsetCnt
        hf   == [nil |-> FALSE, File |-> <<>>, HeaderSize |-> size,
                 OffsetCnt |-> offsetCnt,
                 KeySets |-> [i \in 1..offsetCnt |-> [Start |-> size, End |-> size]],
                 KeySetOffset |-> [i \in 1..offsetCnt |-> i]]
    IN  [hf EXCEPT !.File = HFMarshal(hf)]

\* HistoryFile.Index
HFIndex(hf, key) == key[1][1] % hf.OffsetCnt

\* OffsetSort: KeySetOffset ordered by End.  Key sets of equal End are the
\* empty ones at the end of the header, which are all alike.
RECURSIVE InsertByEnd(_, _, _)
InsertByEnd(KeySets, sorted, i) ==
    IF sorted = <<>> THEN <<i>>
    ELSE IF KeySets[i].End < KeySets[Head(sorted)].End THEN <<i>> \o sorted
    ELSE <<Head(sorted)>> \o InsertByEnd(KeySets, Tail(sorted), i)

RECURSIVE SortByEnd(_, _)
SortByEnd(KeySets, order) ==
    IF order = <<>> THEN <<>>
    ELSE InsertByEnd(KeySets, SortByEnd(KeySets, SubSeq(order, 1, Len(order) - 1)),
                     order[Len(order)])

OffsetSort(hf) == [hf EXCEPT !.KeySetOffset = SortByEnd(hf.KeySets, @)]

\* no search for room: the key set goes to the end of the header
FindRoomAtHeader(hf, iAfter, offset, NewLength) == offset

\* the loop of UpdateKeySet that looks for room: the subtraction is of
\* unsigned numbers, so a Start below offset wraps to a huge gap
RECURSIVE FindRoom(_, _, _, _)
FindRoom(hf, iAfter, offset, NewLength) ==
    IF iAfter >= hf.OffsetCnt THEN offset
    ELSE LET ks == hf.KeySets[hf.KeySetOffset[iAfter + 1]]
         IN  IF ks.Start < offset \/ ks.Start - offset >= NewLength
             THEN offset
             ELSE FindRoom(hf, iAfter + 1, ks.End, NewLength)

\* os.File.ReadAt: an error when fewer than n words are there
FileReadAt(file, offset, n) ==
    IF offset + n > Len(file)
    THEN [data |-> SubSeq(file, offset + 1, Len(file)), err |-> "EOF"]
    ELSE [data |-> SubSeq(file, offset + 1, offset + n), err |-> "nil"]

\* UpdateKeySet that moves the key set without the records it holds
UpdateKeySetNoCopy(hf, index, keyList) ==
    IF Len(keyList) = 0 THEN [hf |-> hf, err |-> "nil"]
    ELSE LET keySet    == hf.KeySets[index + 1]
             NewLength == keySet.End - keySet.Start + Len(keyList)
         IN  With(FindRoom(hf, 0, hf.HeaderSize, NewLength), LAMBDA offset :
                 [hf |-> OffsetSort(
                      [hf EXCEPT !.File = Overwrite(@, offset, keyList),
                                 !.KeySets[index + 1] =
                                     [Start |-> offset, End |-> offset + NewLength]]),
                  err |-> "nil"])

UpdateKeySet(hf, index, keyList) ==
    IF Len(keyList) = 0 THEN [hf |-> hf, err |-> "nil"]
    ELSE LET keySet        == hf.KeySets[index + 1]
             CurrentLength == keySet.End - keySet.Start
             NewLength     == CurrentLength + Len(keyList)
         IN  With(FindRoom(hf, 0, hf.HeaderSize, NewLength), LAMBDA offset :
             With(FileReadAt(hf.File, keySet.Start, CurrentLength), LAMBDA cur :
                 IF cur.err # "nil" THEN [hf |-> hf, err |-> cur.err]
                 ELSE [hf |-> OffsetSort(
                           [hf EXCEPT !.File = Overwrite(@, offset, cur.data \o keyList),
                                      !.KeySets[index + 1] =
                                          [Start |-> offset, End |-> offset + NewLength]]),
                       err |-> "nil"]))

RECURSIVE AddKeysLoop(_, _, _, _, _, _)
AddKeysLoop(hf, keyList, pos, index, startOff, endOff) ==
    IF pos >= Len(keyList)
    THEN With(UpdateKeySet(hf, index, SubSeq(keyList, startOff + 1, endOff)), LAMBDA r :
             IF r.err # "nil" THEN r
             ELSE [hf |-> [r.hf EXCEPT !.File = Overwrite(@, 0, HFMarshal(r.hf))],
                   err |-> "nil"])
    ELSE LET kIndex == HFIndex(hf, SubSeq(keyList, pos + 1, pos + KeyWords))
         IN  IF kIndex = index
             THEN AddKeysLoop(hf, keyList, pos + DBKeyFullSize, index,
                              startOff, endOff + DBKeyFullSize)
             ELSE IF kIndex < index
             THEN [hf |-> hf, err |-> "keyList is not sorted"]
             ELSE With(UpdateKeySet(hf, index, SubSeq(keyList, startOff + 1, endOff)),
                       LAMBDA r :
                      IF r.err # "nil" THEN r
                      ELSE AddKeysLoop(r.hf, keyList, pos + DBKeyFullSize, kIndex,
                                       endOff, endOff + DBKeyFullSize))

\* HistoryFile.AddKeys
AddKeys(hf, keyList) ==
    IF Len(keyList) = 0 THEN [hf |-> hf, err |-> "nil"]
    ELSE IF Len(keyList) % DBKeyFullSize # 0
    THEN [hf |-> hf, err |-> "keyList is the wrong length"]
    ELSE AddKeysLoop(hf, keyList, 0, HFIndex(hf, SubSeq(keyList, 1, KeyWords)), 0, 0)

\* a search that takes the first record of the section, whatever its address
SearchFirst(keys, Key) ==
    IF Len(keys) < DBKeyFullSize THEN [d |-> NewDBBKey(0, 0), err |-> "not found"]
    ELSE [d |-> Unmarshal(keys).d, err |-> "nil"]

\* the search of a section of records, as in kGet and HistoryFile.Get:
\* the first record of keys whose address is Key
RECURSIVE SearchKeys(_, _)
SearchKeys(keys, Key) ==
    IF Len(keys) < DBKeyFullSize THEN [d |-> NewDBBKey(0, 0), err |-> "not found"]
    ELSE IF SubSeq(keys, 1, KeyWords) = Key
    THEN [d |-> Unmarshal(keys).d, err |-> "nil"]
    ELSE SearchKeys(SubSeq(keys, DBKeyFullSize + 1, Len(keys)), Key)

\* HistoryFile.Get
HistoryGet(hf, Key) ==
    LET index == HFIndex(hf, Key)
        start == hf.KeySets[index + 1].Start
        end   == hf.KeySets[index + 1].End
    IN  IF end - start = 0 THEN [d |-> NewDBBKey(0, 0), err |-> "not found"]
        ELSE With(FileReadAt(hf.File, start, end - start), LAMBDA r :
                 IF r.err # "nil" THEN [d |-> NewDBBKey(0, 0), err |-> r.err]
                 ELSE SearchKeys(r.data, Key))

\* the keys PopulateBloomFilterFromHistory reads from one key set: the key
\* set is read in chunks of chunkSize, and keys are taken from every chunk at
\* the multiples of the record size that fit in the chunk
ChunkKeys(hf, start, end) ==
    LET keysLen == end - start
        L       == Min(chunkSize, keysLen)
        chunks  == {j \in 0..keysLen : start + j * L < end}
        clen(j) == Min(L, end - (start + j * L))
    IN  {SubSeq(hf.File, start + j * L + p * DBKeyFullSize + 1,
                         start + j * L + p * DBKeyFullSize + KeyWords) :
            <<j, p>> \in {jp \in chunks \X (0..keysLen) :
                             (jp[2] + 1) * DBKeyFullSize <= clen(jp[1])}}

HistoryChunkKeys(hf) ==
    UNION {IF hf.KeySets[i].End = hf.KeySets[i].Start THEN {}
           ELSE ChunkKeys(hf, hf.KeySets[i].Start, hf.KeySets[i].End) :
           i \in 1..hf.OffsetCnt}

\* ------------------------------------------------------------------------
\* KFile.  The fields of the embedded Header are fields of the KFile.
\*   Cache is a function from the cached keys to their DBBKey.
\* ------------------------------------------------------------------------
EmptyCache == [x \in {} |-> NewDBBKey(0, 0)]

CacheSet(cache, Key, d) ==
    [x \in (DOMAIN cache) \cup {Key} |-> IF x = Key THEN d ELSE cache[x]]

KHeader(k) ==
    [OffsetsCnt |-> k.OffsetsCnt, HeaderSize |-> k.HeaderSize,
     Offsets |-> k.Offsets, EndOfList |-> k.EndOfList]

SetHeader(k, h) ==
    [k EXCEPT !.OffsetsCnt = h.OffsetsCnt, !.HeaderSize = h.HeaderSize,
              !.Offsets = h.Offsets, !.EndOfList = h.EndOfList]

\* KFile.WriteHeader.  Marshal of a header of size zero (a KFile that
\* OpenKFile made, whose header was never set) indexes an empty buffer.
WriteHeader(k) ==
    IF k.HeaderSize = 0 THEN [k |-> k, err |-> "panic"]
    ELSE [k |-> [k EXCEPT !.File = BFileWriteAt(@, 0, HeaderMarshal(KHeader(k)))],
          err |-> "nil"]

NewKFile(history, offsetCnt, keyLimit, maxCachedBlocks) ==
    LET k == SetHeader(
                 [OffsetsCnt |-> 0, HeaderSize |-> 0, Offsets |-> <<>>, EndOfList |-> 0,
                  File |-> NewBFile,
                  History |-> IF history THEN NewHistoryFile(offsetCnt) ELSE NilHistory,
                  Cache |-> EmptyCache,
                  BlocksCached |-> 0,
                  KeyCnt |-> 0,
                  TotalCnt |-> 0,
                  KeyLimit |-> keyLimit,
                  MaxCachedBlocks |-> maxCachedBlocks,
                  BloomFilter |-> NewBloomFilter(BloomNumBytes, BloomK)],
                 HeaderInit(offsetCnt))
    IN  WriteHeader(k).k

\* OpenKFile: a new KFile on the files of a directory.  Nothing loads the
\* header of the key file.  When the directory holds a history file, its
\* header is unmarshaled into hf.KeySets, which was never allocated.
OpenKFile(kdisk, hdisk, hasHistory) ==
    IF hasHistory /\ Len(hdisk) > 0 /\ hdisk[1][2] > 0
    THEN [k |-> NewKFile(FALSE, 0, 0, 0), err |-> "panic"]
    ELSE [k |-> [OffsetsCnt |-> 0, HeaderSize |-> 0, Offsets |-> <<>>, EndOfList |-> 0,
                 File |-> OpenBFile(kdisk),
                 History |-> NilHistory,
                 Cache |-> EmptyCache,
                 BlocksCached |-> 0,
                 KeyCnt |-> 0,
                 TotalCnt |-> 0,
                 KeyLimit |-> 0,
                 MaxCachedBlocks |-> 0,
                 BloomFilter |-> NilBloom],
          err |-> "nil"]

\* KFile.Flush
KFileFlush(k) ==
    With(WriteHeader(k), LAMBDA w :
        IF w.err # "nil" THEN w
        ELSE [k |-> [w.k EXCEPT !.File = BFileFlush(@), !.Cache = EmptyCache],
              err |-> "nil"])

\* the records of a key region, in file order
RECURSIVE ParseRecords(_)
ParseRecords(data) ==
    IF Len(data) < DBKeyFullSize THEN <<>>
    ELSE With(Unmarshal(data), LAMBDA u : <<[key |-> u.address, d |-> u.d]>>)
         \o ParseRecords(SubSeq(data, DBKeyFullSize + 1, Len(data)))

\* the distinct keys of recs other than nilKey, in the order they first appear
\* the keys of the records, the key of zero bytes among them
RECURSIVE DistinctKeysAll(_, _)
DistinctKeysAll(recs, seen) ==
    IF recs = <<>> THEN <<>>
    ELSE LET key == Head(recs).key
         IN  IF key \in seen THEN DistinctKeysAll(Tail(recs), seen)
             ELSE <<key>> \o DistinctKeysAll(Tail(recs), seen \cup {key})

RECURSIVE DistinctKeys(_, _)
DistinctKeys(recs, seen) ==
    IF recs = <<>> THEN <<>>
    ELSE LET key == Head(recs).key
         IN  IF key = nilKey \/ key \in seen THEN DistinctKeys(Tail(recs), seen)
             ELSE <<key>> \o DistinctKeys(Tail(recs), seen \cup {key})

RECURSIVE KeysOfBin(_, _, _)
KeysOfBin(keys, offsetsCnt, bin) ==
    IF keys = <<>> THEN <<>>
    ELSE (IF OffsetIndex(offsetsCnt, Head(keys)) = bin THEN <<Head(keys)>> ELSE <<>>)
         \o KeysOfBin(Tail(keys), offsetsCnt, bin)

\* the keys in the order the key file gave them, not sorted by bin
KeepOrder(keys, offsetsCnt, bin) == keys

\* sort.Slice by bin.  The order inside a bin, which the program leaves to
\* the map iteration and the sort, is here the order of first appearance.
RECURSIVE SortByBin(_, _, _)
SortByBin(keys, offsetsCnt, bin) ==
    IF bin >= offsetsCnt THEN <<>>
    ELSE KeysOfBin(keys, offsetsCnt, bin) \o SortByBin(keys, offsetsCnt, bin + 1)

\* the DBBKey of the last record of recs (a non-empty sequence of the
\* records of one key)
LastOf(recs, key) ==
    LET idx == {i \in 1..Len(recs) : recs[i].key = key}
    IN  recs[CHOOSE i \in idx : \A j \in idx : j <= i].d

\* KFile.GetKeyList
GetKeyList(k) ==
    With(KFileFlush(k), LAMBDA f :
        LET none == [k |-> f.k, keyValues |-> EmptyCache, KeyList |-> <<>>,
                     isNil |-> TRUE, err |-> f.err]
            size == Len(f.k.File.disk) - f.k.HeaderSize
        IN  IF f.err # "nil" \/ size \div DBKeyFullSize <= 0 THEN none
            ELSE IF size % DBKeyFullSize # 0 THEN [none EXCEPT !.err = "short"]
            ELSE With(ParseRecords(SubSeq(f.k.File.disk, f.k.HeaderSize + 1,
                                          Len(f.k.File.disk))), LAMBDA recs :
                 With(DistinctKeys(recs, {}), LAMBDA keys :
                     [k |-> f.k,
                      keyValues |-> [x \in {keys[i] : i \in 1..Len(keys)} |-> LastOf(recs, x)],
                      KeyList |-> SortByBin(keys, f.k.OffsetsCnt, 0),
                      isNil |-> FALSE,
                      err |-> "nil"])))

\* the loop of KFile.Close that sets the offset of every bin
RECURSIVE CloseOffsets(_, _, _, _, _, _)
CloseOffsets(offsetsCnt, keyList, i, lastIndex, currentOffset, Offsets) ==
    IF i > Len(keyList)
    THEN [Offsets |-> [j \in 1..Len(Offsets) |->
                          IF j - 1 >= lastIndex + 1 /\ j - 1 < offsetsCnt
                          THEN currentOffset ELSE Offsets[j]],
          EndOfList |-> currentOffset]
    ELSE LET index == OffsetIndex(offsetsCnt, keyList[i])
         IN  IF lastIndex < index
             THEN CloseOffsets(offsetsCnt, keyList, i + 1, index,
                      currentOffset + DBKeyFullSize,
                      [j \in 1..Len(Offsets) |->
                          IF j - 1 >= lastIndex + 1 /\ j - 1 <= index
                          THEN currentOffset ELSE Offsets[j]])
             ELSE CloseOffsets(offsetsCnt, keyList, i + 1, lastIndex,
                      currentOffset + DBKeyFullSize, Offsets)

RECURSIVE WriteKeys(_, _, _, _)
WriteKeys(b, keyValues, keyList, i) ==
    IF i > Len(keyList) THEN b
    ELSE WriteKeys(BFileWrite(b, Bytes(keyValues[keyList[i]], keyList[i])).b,
                   keyValues, keyList, i + 1)

\* KFile.Close that writes the sorted keys back and leaves the offsets of
\* the bins as they were
KFileCloseStaleOffsets(k) ==
    With(GetKeyList(k), LAMBDA g :
        IF g.err # "nil" THEN [k |-> g.k, err |-> g.err]
        ELSE IF g.isNil THEN [k |-> g.k, err |-> "nil"]
        ELSE With(WriteHeader([g.k EXCEPT !.File = [@ EXCEPT !.File = TRUE,
                                                             !.disk = <<>>]]),
                  LAMBDA w :
                 IF w.err # "nil" THEN w
                 ELSE [k |-> [w.k EXCEPT !.File =
                                  BFileClose(WriteKeys(@, g.keyValues, g.KeyList, 1))],
                       err |-> "nil"]))

\* KFile.Close
KFileClose(k) ==
    With(GetKeyList(k), LAMBDA g :
        IF g.err # "nil" THEN [k |-> g.k, err |-> g.err]
        ELSE IF g.isNil THEN [k |-> g.k, err |-> "nil"]
        ELSE With(CloseOffsets(g.k.OffsetsCnt, g.KeyList, 1, -1,
                               g.k.HeaderSize, g.k.Offsets), LAMBDA o :
             With(WriteHeader(
                      [g.k EXCEPT !.Offsets = o.Offsets, !.EndOfList = o.EndOfList,
                                  \* File.File.Close, os.Remove, os.Create
                                  !.File = [@ EXCEPT !.File = TRUE, !.disk = <<>>]]),
                  LAMBDA w :
                 IF w.err # "nil" THEN w
                 ELSE [k |-> [w.k EXCEPT !.File =
                                  BFileClose(WriteKeys(@, g.keyValues, g.KeyList, 1))],
                       err |-> "nil"])))

\* KFile.PopulateBloomFilterFromHistory
PopulateBloomFilterFromHistory(k) ==
    IF k.History.nil \/ k.BloomFilter.nil THEN k
    ELSE [k EXCEPT !.BloomFilter.Map =
              @ \cup UNION {BloomSet(k.BloomFilter, key).Map :
                               key \in HistoryChunkKeys(k.History)}]

\* KFile.Open
KFileOpen(k) ==
    [PopulateBloomFilterFromHistory(
         IF k.BloomFilter.nil
         THEN [k EXCEPT !.BloomFilter = NewBloomFilter(BloomNumBytes, BloomK)] ELSE k)
     EXCEPT !.File = BFileOpen(@)]

\* KFile.kGet
kGet(k, Key) ==
    LET miss(kk, e) == [k |-> kk, d |-> NewDBBKey(0, 0), err |-> e]
    IN  IF k.OffsetsCnt = 0 THEN miss(k, "panic")   \* the remainder of a division by zero
        ELSE
        LET index == OffsetIndex(k.OffsetsCnt, Key)
            start == k.Offsets[index + 1]
            end   == IF index < Len(k.Offsets) - 1 THEN k.Offsets[index + 2]
                     ELSE k.File.EOD
        IN  IF start = end THEN miss(k, "not found")
            ELSE IF end < start THEN miss(k, "panic")   \* make([]byte, end-start)
            ELSE With(BFileReadAt(k.File, start, end - start), LAMBDA r :
                     IF r.err # "nil" THEN miss([k EXCEPT !.File = r.b], r.err)
                     ELSE With(SearchKeys(r.data, Key), LAMBDA f :
                              [k |-> [k EXCEPT !.File = r.b], d |-> f.d, err |-> f.err]))

\* KFile.Get
KFileGet(k, Key) ==
    IF Key \in DOMAIN k.Cache
    THEN [k |-> k, d |-> k.Cache[Key], err |-> "nil"]
    ELSE IF ~k.BloomFilter.nil /\ ~BloomTest(k.BloomFilter, Key)
    THEN [k |-> k, d |-> NewDBBKey(0, 0), err |-> "not found"]
    ELSE With(kGet(k, Key), LAMBDA r :
             IF r.err = "nil" \/ r.err = "panic" THEN r
             ELSE IF ~k.History.nil
             THEN With(HistoryGet(k.History, Key), LAMBDA h :
                      [k |-> r.k, d |-> h.d, err |-> h.err])
             ELSE r)

\* os.Remove of the key file, NewBFile, Header.Init, then k.Close() and
\* k.Open() whose errors PushHistory does not look at
ResetKeyFile(k) ==
    With(KFileClose(SetHeader([k EXCEPT !.File = NewBFile], HeaderInit(k.OffsetsCnt))),
         LAMBDA c :
        [k |-> KFileOpen(c.k), err |-> IF c.err = "panic" THEN "panic" ELSE "nil"])

RECURSIVE KeyListBytes(_, _, _)
KeyListBytes(keyValues, keyList, i) ==
    IF i > Len(keyList) THEN <<>>
    ELSE Bytes(keyValues[keyList[i]], keyList[i]) \o KeyListBytes(keyValues, keyList, i + 1)

RECURSIVE BloomSetAll(_, _, _)
BloomSetAll(bf, keyList, i) ==
    IF i > Len(keyList) THEN bf
    ELSE BloomSetAll(BloomSet(bf, keyList[i]), keyList, i + 1)

\* KFile.PushHistory
PushHistory(k) ==
    With(KFileClose(k), LAMBDA c :
        IF c.err # "nil" THEN c
        ELSE IF k.History.nil THEN ResetKeyFile(c.k)
        ELSE
        With(GetKeyList(c.k), LAMBDA g :
            IF g.err # "nil" THEN [k |-> g.k, err |-> g.err]
            ELSE
            With(ResetKeyFile(g.k), LAMBDA r :
                IF r.err # "nil" \/ Len(g.KeyList) = 0 THEN r
                ELSE
                With(AddKeys(r.k.History, KeyListBytes(g.keyValues, g.KeyList, 1)),
                     LAMBDA a :
                    [k |-> [r.k EXCEPT !.BloomFilter =
                                           IF @.nil THEN @ ELSE BloomSetAll(@, g.KeyList, 1),
                                       !.History = a.hf],
                     err |-> IF a.err # "nil" THEN "Error sending data to history"
                             ELSE "nil"]))))

\* PutUpdate that rewrites every time the Write went to disk
PutUpdateEveryFlush(k) ==
    With(KFileClose(k), LAMBDA c :
        IF c.err # "nil" THEN c
        ELSE [k |-> [c.k EXCEPT !.File = BFileOpen(@),
                                !.BlocksCached = c.k.MaxCachedBlocks],
              err |-> "nil"])

\* the part of KFile.Put that writes the record
\* the rewrite cycle of KFile.Put, when the Write went to disk: k is the
\* KFile after the Write
PutUpdate(k) ==
    IF k.BlocksCached <= 0
    THEN With(KFileClose(k), LAMBDA c :
             IF c.err # "nil" THEN c
             ELSE LET tempCache == c.k.Cache
                  IN  [k |-> [c.k EXCEPT !.File = BFileOpen(@),
                                         !.Cache = tempCache,
                                         !.BlocksCached = c.k.MaxCachedBlocks],
                       err |-> "nil"])
    ELSE [k |-> [k EXCEPT !.BlocksCached = @ - 1], err |-> "nil"]

\* the end of KFile.Put: the push to history when KeyCnt passed KeyLimit
PutSpill(u) ==
    IF u.err # "nil" THEN u
    ELSE IF u.k.KeyCnt > u.k.KeyLimit
    THEN With(PushHistory([u.k EXCEPT !.KeyCnt = 0]), LAMBDA p :
             IF p.err # "nil" THEN p
             ELSE [k |-> [p.k EXCEPT !.Cache = EmptyCache], err |-> "nil"])
    ELSE u

PutWrite(k, Key, dbBKey) ==
    With(BFileWrite(k.File, Bytes(dbBKey, Key)), LAMBDA w :
    With([k EXCEPT !.Cache = CacheSet(@, Key, dbBKey),
                   !.BloomFilter = IF @.nil THEN @ ELSE BloomSet(@, Key),
                   !.KeyCnt = @ + 1,
                   !.TotalCnt = @ + 1,
                   !.File = w.b], LAMBDA k2 :
        PutSpill(IF w.update THEN PutUpdate(k2) ELSE [k |-> k2, err |-> "nil"])))

Immutable == "cannot overwrite immutable value when history is enabled"


\* KFile.Put that caches the descriptor it rejects
KFilePutCaching(k, Key, dbBKey) ==
    IF k.History.nil THEN PutWrite(k, Key, dbBKey)
    ELSE IF Key \in DOMAIN k.Cache
    THEN IF Bytes(k.Cache[Key], Key) # Bytes(dbBKey, Key)
         THEN [k |-> [k EXCEPT !.Cache = CacheSet(@, Key, dbBKey)], err |-> Immutable]
         ELSE [k |-> k, err |-> "nil"]
    ELSE IF ~k.BloomFilter.nil /\ ~BloomTest(k.BloomFilter, Key)
    THEN PutWrite(k, Key, dbBKey)
    ELSE With(kGet(k, Key), LAMBDA e :
             IF e.err = "nil"
             THEN [k |-> [e.k EXCEPT !.Cache = CacheSet(@, Key, dbBKey)],
                   err |-> IF Bytes(e.d, Key) # Bytes(dbBKey, Key) THEN Immutable
                           ELSE "nil"]
             ELSE IF e.err # "not found" THEN [k |-> e.k, err |-> e.err]
             ELSE PutWrite(e.k, Key, dbBKey))

\* KFile.Put
KFilePut(k, Key, dbBKey) ==
    IF k.History.nil THEN PutWrite(k, Key, dbBKey)
    ELSE IF Key \in DOMAIN k.Cache
    THEN IF Bytes(k.Cache[Key], Key) # Bytes(dbBKey, Key)
         THEN [k |-> k, err |-> Immutable]
         ELSE [k |-> k, err |-> "nil"]
    ELSE IF ~k.BloomFilter.nil /\ ~BloomTest(k.BloomFilter, Key)
    THEN PutWrite(k, Key, dbBKey)
    ELSE With(kGet(k, Key), LAMBDA e :
             IF e.err = "nil"
             THEN IF Bytes(e.d, Key) # Bytes(dbBKey, Key)
                  THEN [k |-> e.k, err |-> Immutable]
                  ELSE [k |-> [e.k EXCEPT !.Cache = CacheSet(@, Key, dbBKey)],
                        err |-> "nil"]
             ELSE IF e.err # "not found" THEN [k |-> e.k, err |-> e.err]
             ELSE PutWrite(e.k, Key, dbBKey))

\* delete(k.Cache, Key)
CacheDelete(cache, Key) == [x \in (DOMAIN cache) \ {Key} |-> cache[x]]

\* the part of KFile.Put that writes the record, when File.Write fails: the
\* cache entry Put has just set is deleted and the error returned
PutWriteFails(k, Key, dbBKey) ==
    With(BFileWriteFails(k.File, Bytes(dbBKey, Key)), LAMBDA w :
        [k |-> [k EXCEPT !.Cache = CacheDelete(CacheSet(@, Key, dbBKey), Key),
                         !.BloomFilter = IF @.nil THEN @ ELSE BloomSet(@, Key),
                         !.KeyCnt = @ + 1,
                         !.TotalCnt = @ + 1,
                         !.File = w.b],
         err |-> w.err])

\* KFile.Put when the File.Write of its record fails
KFilePutWriteFails(k, Key, dbBKey) ==
    IF k.History.nil THEN PutWriteFails(k, Key, dbBKey)
    ELSE IF Key \in DOMAIN k.Cache
    THEN IF Bytes(k.Cache[Key], Key) # Bytes(dbBKey, Key)
         THEN [k |-> k, err |-> Immutable]
         ELSE [k |-> k, err |-> "nil"]
    ELSE IF ~k.BloomFilter.nil /\ ~BloomTest(k.BloomFilter, Key)
    THEN PutWriteFails(k, Key, dbBKey)
    ELSE With(kGet(k, Key), LAMBDA e :
             IF e.err = "nil"
             THEN IF Bytes(e.d, Key) # Bytes(dbBKey, Key)
                  THEN [k |-> e.k, err |-> Immutable]
                  ELSE [k |-> [e.k EXCEPT !.Cache = CacheSet(@, Key, dbBKey)],
                        err |-> "nil"]
             ELSE IF e.err # "not found" THEN [k |-> e.k, err |-> e.err]
             ELSE PutWriteFails(e.k, Key, dbBKey))

\* ------------------------------------------------------------------------
\* KV: a values file and a key file
\* ------------------------------------------------------------------------
NewKV(history, offsetsCnt, keyLimit, maxCachedBlocks) ==
    [kFile |-> NewKFile(history, offsetsCnt, keyLimit, maxCachedBlocks),
     vFile |-> NewBFile]

\* OpenKV on the files of a directory
OpenKV(vdisk, kdisk, hdisk, hasHistory) ==
    With(OpenKFile(kdisk, hdisk, hasHistory), LAMBDA o :
        [k |-> [kFile |-> o.k, vFile |-> OpenBFile(vdisk)], err |-> o.err])

\* KV.Put
KVPut(k, key, value) ==
    With(BFileOffset(k.vFile), LAMBDA off :
        IF off.err # "nil" THEN [k |-> k, err |-> off.err]
        ELSE With(KFilePut(k.kFile, key, NewDBBKey(off.offset, Len(value))), LAMBDA p :
                 [k |-> [kFile |-> p.k, vFile |-> BFileWrite(k.vFile, value).b],
                  err |-> p.err]))

\* KV.Get
KVGet(k, key) ==
    With(KFileGet(k.kFile, key), LAMBDA g :
        IF g.err # "nil"
        THEN [k |-> [k EXCEPT !.kFile = g.k], value |-> <<>>, err |-> g.err]
        ELSE With(BFileReadAt(k.vFile, g.d.Offset, g.d.Length), LAMBDA r :
                 [k |-> [kFile |-> g.k, vFile |-> r.b],
                  value |-> IF r.err = "nil" THEN r.data ELSE <<>>,
                  err |-> r.err]))

\* KV.Close
KVClose(k) ==
    With(KFileClose(k.kFile), LAMBDA c :
        IF c.err # "nil" THEN [k |-> [k EXCEPT !.kFile = c.k], err |-> c.err]
        ELSE [k |-> [kFile |-> c.k, vFile |-> BFileClose(k.vFile)], err |-> "nil"])

\* KV.Open
KVOpen(k) == [kFile |-> KFileOpen(k.kFile), vFile |-> BFileOpen(k.vFile)]

\* the loop of KV.Compress over the key list.  The value is read into
\* buffer[:dbbKey.Length], a slice of an array of CompressBufferLen.
RECURSIVE CompressLoop(_, _, _, _, _)
CompressLoop(k, tvFile, keyValues, ks, i) ==
    IF i > Len(ks) THEN [k |-> k, tvFile |-> tvFile, err |-> "nil"]
    ELSE LET key    == ks[i]
             dbbKey == keyValues[key]
         IN  IF dbbKey.Length > CompressBufferLen
             THEN [k |-> k, tvFile |-> tvFile, err |-> "panic"]
             ELSE
             With(BFileReadAt(k.vFile, dbbKey.Offset, dbbKey.Length), LAMBDA r :
             With(BFileOffset(tvFile), LAMBDA off :
                 IF r.err # "nil"
                 THEN [k |-> [k EXCEPT !.vFile = r.b], tvFile |-> tvFile, err |-> r.err]
                 ELSE IF off.err # "nil"
                 THEN [k |-> [k EXCEPT !.vFile = r.b], tvFile |-> tvFile, err |-> off.err]
                 ELSE
                 With(KFilePut(k.kFile, key, [dbbKey EXCEPT !.Offset = off.offset]),
                      LAMBDA p :
                     IF p.err # "nil"
                     THEN [k |-> [kFile |-> p.k, vFile |-> r.b], tvFile |-> tvFile,
                           err |-> p.err]
                     ELSE CompressLoop([kFile |-> p.k, vFile |-> r.b],
                                       BFileWrite(tvFile, r.data).b, keyValues, ks, i + 1))))

\* the end of KV.Compress: l is what the loop over the key list left
CompressRename(l) ==
    IF l.err # "nil" THEN [k |-> l.k, err |-> l.err]
    ELSE With(KFileClose(l.k.kFile), LAMBDA kc :
             \* os.Remove(vFile.Filename), os.Rename(tvFile.Filename, vFile.Filename)
             [k |-> [kFile |-> kc.k,
                     vFile |-> [BFileClose(l.k.vFile) EXCEPT
                                    !.disk = BFileClose(l.tvFile).disk]],
              err |-> IF kc.err = "panic" THEN "panic" ELSE "nil"])

\* the error of os.Create
CreateFailed == "create failed"

\* KV.Compress when os.Create of the temporary values file fails: Open,
\* Close and Open have been done, nothing else
KVCompressCreateFails(k) ==
    With(KVClose(KVOpen(k)), LAMBDA c :
        IF c.err = "panic" THEN c
        ELSE [k |-> KVOpen(c.k), err |-> CreateFailed])

\* KV.Compress
KVCompress(k) ==
    With(KVClose(KVOpen(k)), LAMBDA c :
        IF c.err = "panic" THEN c
        ELSE With(GetKeyList(KFileOpen(c.k.kFile)), LAMBDA g :
                 IF g.err # "nil"
                 THEN [k |-> [kFile |-> g.k, vFile |-> BFileOpen(c.k.vFile)],
                       err |-> g.err]
                 ELSE CompressRename(
                          CompressLoop([kFile |-> g.k, vFile |-> BFileOpen(c.k.vFile)],
                                       NewBFile, g.keyValues, g.KeyList, 1))))

\* ------------------------------------------------------------------------
\* KV2: a PermKV with history and a DynaKV without
\* ------------------------------------------------------------------------
NewKV2(offsetsCnt, keyLimit, maxCachedBlocks) ==
    [PermKV |-> NewKV(TRUE, offsetsCnt, keyLimit, maxCachedBlocks),
     DynaKV |-> NewKV(FALSE, offsetsCnt, keyLimit, maxCachedBlocks),
     DWrites |-> 0, PWrites |-> 0]

\* OpenKV2 on the directories another KV2 left
OpenKV2(old) ==
    With(OpenKV(old.PermKV.vFile.disk, old.PermKV.kFile.File.disk,
                old.PermKV.kFile.History.File, ~old.PermKV.kFile.History.nil),
         LAMBDA perm :
    With(OpenKV(old.DynaKV.vFile.disk, old.DynaKV.kFile.File.disk,
                old.DynaKV.kFile.History.File, ~old.DynaKV.kFile.History.nil),
         LAMBDA dyna :
        [k |-> [PermKV |-> perm.k, DynaKV |-> dyna.k, DWrites |-> 0, PWrites |-> 0],
         err |-> IF perm.err # "nil" THEN perm.err ELSE dyna.err]))

KV2Open(k) == [k EXCEPT !.PermKV = KVOpen(@), !.DynaKV = KVOpen(@)]

KV2Close(k) ==
    With(KVClose(k.PermKV), LAMBDA p :
        IF p.err # "nil" THEN [k |-> [k EXCEPT !.PermKV = p.k], err |-> p.err]
        ELSE With(KVClose(k.DynaKV), LAMBDA d :
                 [k |-> [k EXCEPT !.PermKV = p.k, !.DynaKV = d.k], err |-> d.err]))

KV2GetDyna(k, key) ==
    With(KVGet(k.DynaKV, key), LAMBDA g :
        [k |-> [k EXCEPT !.DynaKV = g.k], value |-> g.value, err |-> g.err])

KV2GetPerm(k, key) ==
    With(KVGet(k.PermKV, key), LAMBDA g :
        [k |-> [k EXCEPT !.PermKV = g.k], value |-> g.value, err |-> g.err])

\* KV2.Get with the layers in the other order: Perm first, Dyna on a miss
KV2GetPermFirst(k, key) ==
    With(KV2GetPerm(k, key), LAMBDA p :
        IF p.err = "nil" \/ p.err = "panic" THEN p
        ELSE KV2GetDyna(p.k, key))

\* KV2.Get
KV2Get(k, key) ==
    With(KV2GetDyna(k, key), LAMBDA d :
        IF d.err = "nil" \/ d.err = "panic" THEN d
        ELSE KV2GetPerm(d.k, key))

KV2PutDyna(k, key, value) ==
    With(KVPut(k.DynaKV, key, value), LAMBDA p :
        [k |-> [k EXCEPT !.DWrites = @ + 1, !.DynaKV = p.k],
         writes |-> k.DWrites + 1, err |-> p.err])

KV2PutPerm(k, key, value) ==
    With(KVPut(k.PermKV, key, value), LAMBDA p :
        [k |-> [k EXCEPT !.PWrites = @ + 1, !.PermKV = p.k],
         writes |-> k.DWrites, err |-> p.err])

\* KV2.Put without the comparison of the value with the one held
KV2PutUncompared(k, key, value) ==
    With(KV2GetDyna(k, key), LAMBDA d :
        IF d.err = "panic" THEN [k |-> d.k, writes |-> 0, err |-> "panic"]
        ELSE IF d.err = "nil" THEN KV2PutDyna(d.k, key, value)
        ELSE With(KV2GetPerm(d.k, key), LAMBDA p :
                 IF p.err = "panic" THEN [k |-> p.k, writes |-> 0, err |-> "panic"]
                 ELSE IF p.err = "nil" THEN KV2PutDyna(p.k, key, value)
                 ELSE KV2PutPerm(p.k, key, value)))

\* KV2.Put
KV2Put(k, key, value) ==
    With(KV2GetDyna(k, key), LAMBDA d :
        IF d.err = "panic" THEN [k |-> d.k, writes |-> 0, err |-> "panic"]
        ELSE IF d.err = "nil"
        THEN IF value = d.value THEN [k |-> d.k, writes |-> d.k.DWrites, err |-> "nil"]
             ELSE KV2PutDyna(d.k, key, value)
        ELSE With(KV2GetPerm(d.k, key), LAMBDA p :
                 IF p.err = "panic" THEN [k |-> p.k, writes |-> 0, err |-> "panic"]
                 ELSE IF p.err = "nil"
                 THEN IF value = p.value
                      THEN [k |-> p.k, writes |-> p.k.PWrites, err |-> "nil"]
                      ELSE KV2PutDyna(p.k, key, value)
                 ELSE KV2PutPerm(p.k, key, value)))

\* KV2.Compress that compresses the PermKV as well
KV2CompressBoth(k) ==
    With(KVCompress(k.PermKV), LAMBDA p :
    With(KVCompress(k.DynaKV), LAMBDA c :
        [k |-> [k EXCEPT !.PermKV = p.k, !.DynaKV = c.k, !.DWrites = 0, !.PWrites = 0],
         err |-> IF c.err = "panic" \/ p.err = "panic" THEN "panic" ELSE "nil"]))

\* KV2.Compress, which returns nothing
KV2Compress(k) ==
    With(KVCompress(k.DynaKV), LAMBDA c :
        [k |-> [k EXCEPT !.DynaKV = c.k, !.DWrites = 0, !.PWrites = 0],
         err |-> IF c.err = "panic" THEN "panic" ELSE "nil"])

\* KV2.Compress when os.Create fails in the Compress of DynaKV.  made is the
\* error DynaKV.Compress returned, which KV2.Compress drops.
KV2CompressCreateFails(k) ==
    With(KVCompressCreateFails(k.DynaKV), LAMBDA c :
        [k |-> [k EXCEPT !.DynaKV = c.k, !.DWrites = 0, !.PWrites = 0],
         err |-> IF c.err = "panic" THEN "panic" ELSE "nil",
         made |-> c.err])

\* ------------------------------------------------------------------------
\* KVShard: Shards[i + 1] is the KV2 of shard i
\* ------------------------------------------------------------------------
NewKVShard(offsetsCnt, keyLimit, maxCachedBlocks) ==
    [Shards |-> [i \in 1..NumShards |-> NewKV2(offsetsCnt, keyLimit, maxCachedBlocks)]]

\* OpenKVShard on the directories another KVShard left
OpenKVShard(old) ==
    With([i \in 1..NumShards |-> OpenKV2(old.Shards[i])], LAMBDA o :
        [k |-> [Shards |-> [i \in 1..NumShards |-> o[i].k]],
         err |-> IF \E i \in 1..NumShards : o[i].err # "nil" THEN "panic" ELSE "nil"])

\* KVShard.Put
KVShardPut(k, key, value) ==
    With(KV2Put(KV2Open(k.Shards[ShardIndex(key) + 1]), key, value), LAMBDA p :
        IF p.err # "nil"
        THEN [k |-> [k EXCEPT !.Shards[ShardIndex(key) + 1] = p.k], err |-> p.err]
        ELSE IF p.writes > CompressWrites
        THEN With(KV2Compress(p.k), LAMBDA c :
                 [k |-> [k EXCEPT !.Shards[ShardIndex(key) + 1] = c.k], err |-> c.err])
        ELSE [k |-> [k EXCEPT !.Shards[ShardIndex(key) + 1] = p.k], err |-> "nil"])

\* KVShard.Put while os.Create fails: err is what Put returns, made is the
\* error the shard made while it served the Put
KVShardPutCreateFails(k, key, value) ==
    With(KV2Put(KV2Open(k.Shards[ShardIndex(key) + 1]), key, value), LAMBDA p :
        IF p.err # "nil"
        THEN [k |-> [k EXCEPT !.Shards[ShardIndex(key) + 1] = p.k],
              err |-> p.err, made |-> p.err]
        ELSE IF p.writes > CompressWrites
        THEN With(KV2CompressCreateFails(p.k), LAMBDA c :
                 [k |-> [k EXCEPT !.Shards[ShardIndex(key) + 1] = c.k],
                  err |-> c.err, made |-> c.made])
        ELSE [k |-> [k EXCEPT !.Shards[ShardIndex(key) + 1] = p.k],
              err |-> "nil", made |-> "nil"])

\* KVShard.Get
KVShardGet(k, key) ==
    With(KV2Get(KV2Open(k.Shards[ShardIndex(key) + 1]), key), LAMBDA g :
        [k |-> [k EXCEPT !.Shards[ShardIndex(key) + 1] = g.k],
         value |-> g.value, err |-> g.err])

RECURSIVE CloseShards(_, _)
CloseShards(k, i) ==
    IF i > NumShards THEN [k |-> k, err |-> "nil"]
    ELSE With(KV2Close(k.Shards[i]), LAMBDA c :
             IF c.err # "nil" THEN [k |-> [k EXCEPT !.Shards[i] = c.k], err |-> c.err]
             ELSE CloseShards([k EXCEPT !.Shards[i] = c.k], i + 1))

\* KVShard.Compress: closes every shard
KVShardCompress(k) == CloseShards(k, 1)

\* KVShard.Close
KVShardClose(k) == CloseShards(k, 1)

\* ------------------------------------------------------------------------
\* State.  One store per specification; the stores a specification does not
\* use stay at NoStore.
\*   pc       for every thread, the statement it is at
\*   mutex    KFile.HistoryMutex: the thread that holds it
\*   tasks    the goroutines started and not yet finished
\*   fr       the package-level FastRandom of database/kfile.go
\*   okf      the KFile of database/kfile.go
\*   bloom    a Bloom filter
\*   rec      an address, a DBBKey, and the record made of them
\*   hf       a HistoryFile
\*   bf       a BFile
\*   kf       a KFile
\*   kv       a KV
\*   kv2      a KV2
\*   kvs      a KVShard
\*   written  for every key, the value of its most recent successful Put
\*   first    for every key, the value of its first successful Put
\*   last     the last operation: its name, its arguments and what it returned
\*   panicked TRUE once an operation panicked
\*   reopened TRUE once the store is an instance opened from the directory
\*   puts     the number of Put calls so far
\* ------------------------------------------------------------------------
VARIABLES pc, mutex, tasks, fr, okf,
          bloom, rec, hf, bf, kf, kv, kv2, kvs, written, first, last, panicked, reopened, puts

vars == <<pc, mutex, tasks, fr, okf,
         bloom, rec, hf, bf, kf, kv, kv2, kvs, written, first, last, panicked, reopened, puts>>

NoStore == <<>>

NoD == [has |-> FALSE, v |-> NewDBBKey(0, 0)]
SomeD(d) == [has |-> TRUE, v |-> d]

\* ------------------------------------------------------------------------
\* SpecKFile: one KFile, with or without history
\* ------------------------------------------------------------------------
KFLast(op, key, d, err, prev) ==
    [op |-> op, key |-> key, d |-> d, err |-> err, prev |-> prev]

InitKFile ==
    /\ pc = NoStore /\ mutex = NoStore /\ tasks = NoStore /\ fr = NoStore /\ okf = NoStore
    /\ \E history \in BOOLEAN :
           kf = NewKFile(history, OffsetsCnt, KeyLimit, MaxCachedBlocks)
    /\ bloom = NoStore /\ rec = NoStore
    /\ hf = NoStore /\ bf = NoStore /\ kv = NoStore /\ kv2 = NoStore /\ kvs = NoStore
    /\ written = [key \in Keys |-> NoD]
    /\ first = [key \in Keys |-> NoD]
    /\ last = KFLast("Init", nilKey, NewDBBKey(0, 0), "nil", NoD)
    /\ panicked = FALSE
    /\ reopened = FALSE
    /\ puts = 0

KFPut(key, d) ==
    /\ ~panicked
    /\ puts < MaxKFilePuts
    /\ puts' = puts + 1
    /\ \E r \in {KFilePut(kf, key, d)} :
           /\ kf' = r.k
           /\ panicked' = (r.err = "panic")
           /\ written' = IF r.err = "nil" THEN [written EXCEPT ![key] = SomeD(d)]
                         ELSE written
           /\ first' = IF r.err = "nil" /\ ~first[key].has
                       THEN [first EXCEPT ![key] = SomeD(d)] ELSE first
           /\ last' = KFLast("Put", key, d, r.err, first[key])
    /\ UNCHANGED <<pc, mutex, tasks, fr, okf, bloom, rec, hf, bf, kv, kv2, kvs, reopened>>

KFGet(key) ==
    /\ ~panicked
    /\ \E r \in {KFileGet(kf, key)} :
           /\ kf' = r.k
           /\ panicked' = (r.err = "panic")
           /\ last' = KFLast("Get", key, r.d, r.err, NoD)
    /\ UNCHANGED <<pc, mutex, tasks, fr, okf, bloom, rec, hf, bf, kv, kv2, kvs, written, first, reopened, puts>>

KFClose ==
    /\ ~panicked
    /\ \E r \in {KFileClose(kf)} :
           /\ kf' = r.k
           /\ panicked' = (r.err = "panic")
           /\ last' = KFLast("Close", nilKey, NewDBBKey(0, 0), r.err, NoD)
    /\ UNCHANGED <<pc, mutex, tasks, fr, okf, bloom, rec, hf, bf, kv, kv2, kvs, written, first, reopened, puts>>

KFOpen ==
    /\ ~panicked
    /\ kf' = KFileOpen(kf)
    /\ last' = KFLast("Open", nilKey, NewDBBKey(0, 0), "nil", NoD)
    /\ UNCHANGED <<pc, mutex, tasks, fr, okf, bloom, rec, hf, bf, kv, kv2, kvs, written, first, panicked, reopened, puts>>

\* a new process opens the directory the closed KFile left: OpenKFile, Open
KFReopen ==
    /\ ~panicked
    /\ last.op = "Close" /\ last.err = "nil"
    /\ \E r \in {OpenKFile(kf.File.disk, kf.History.File, ~kf.History.nil)} :
           /\ kf' = IF r.err = "nil" THEN KFileOpen(r.k) ELSE r.k
           /\ panicked' = (r.err = "panic")
           /\ last' = KFLast("Reopen", nilKey, NewDBBKey(0, 0), r.err, NoD)
    /\ reopened' = TRUE
    /\ UNCHANGED <<pc, mutex, tasks, fr, okf, bloom, rec, hf, bf, kv, kv2, kvs, written, first, puts>>

NextKFile ==
    \/ \E key \in Keys, d \in Descriptors : KFPut(key, d)
    \/ \E key \in ProbeKeys : KFGet(key)
    \/ KFClose
    \/ KFOpen
    \/ KFReopen

SpecKFile == InitKFile /\ [][NextKFile]_vars

\* what Get of key returns in the current state
GetD(key) == KFileGet(kf, key)

\* C2: with history disabled, after any sequence of Puts, Get of a key
\* returns the descriptor of the most recent Put of that key
C2_GetReturnsLatest ==
    (kf.History.nil /\ ~reopened /\ ~panicked) =>
        \A key \in Keys :
            written[key].has =>
                /\ GetD(key).err = "nil"
                /\ GetD(key).d = written[key].v

\* C3: with history enabled, a Put of a key that was Put before with another
\* descriptor fails with the immutable-value error
C3_ConflictingPutFails ==
    (~kf.History.nil /\ ~reopened /\ last.op = "Put"
        /\ last.prev.has /\ last.prev.v # last.d) =>
        last.err = Immutable

\* C4: with history enabled, once Put(key, d) succeeded, every Get of key
\* returns d
C4_GetReturnsFirst ==
    (~kf.History.nil /\ ~reopened /\ ~panicked) =>
        \A key \in Keys :
            first[key].has =>
                /\ GetD(key).err = "nil"
                /\ GetD(key).d = first[key].v

\* what a Get returned: the descriptor, or nothing when it returned an error
Found(g) == IF g.err = "nil" THEN SomeD(g.d) ELSE NoD

BinStart(k, b) == k.Offsets[b + 1]
BinEnd(k, b) == IF b + 1 < k.OffsetsCnt THEN k.Offsets[b + 2] ELSE k.EndOfList

\* the offsets of the records of the key file on disk
RecordOffsets(k) ==
    {k.HeaderSize + j * DBKeyFullSize :
         j \in 0..((Len(k.File.disk) - k.HeaderSize) \div DBKeyFullSize - 1)}

\* C14: after every successful Close the offsets of the bins do not
\* decrease, the first is at or after the header, the last is at or before
\* EndOfList, EndOfList is within the file, and every record on disk lies in
\* the range of the bin of its key
C14_CloseLeavesHeaderConsistent ==
    (last.op = "Close" /\ last.err = "nil") =>
        /\ \A i \in 1..(Len(kf.Offsets) - 1) : kf.Offsets[i] <= kf.Offsets[i + 1]
        /\ kf.Offsets[1] >= kf.HeaderSize
        /\ kf.Offsets[Len(kf.Offsets)] <= kf.EndOfList
        /\ kf.EndOfList <= Len(kf.File.disk)
        /\ \A p \in RecordOffsets(kf) :
               With(OffsetIndex(kf.OffsetsCnt, SubSeq(kf.File.disk, p + 1, p + KeyWords)),
                    LAMBDA b : BinStart(kf, b) <= p /\ p + DBKeyFullSize <= BinEnd(kf, b))

\* a successful Close that left records in two bins
C14_Witness ==
    /\ last.op = "Close" /\ last.err = "nil"
    /\ \A b \in 0..(kf.OffsetsCnt - 1) : BinStart(kf, b) < BinEnd(kf, b)
    /\ Len(kf.File.disk) = kf.EndOfList

\* C20: a Put rejected with the Immutable error changes nothing: the cache,
\* the Bloom filter, KeyCnt and TotalCnt, the header, the words of the key
\* file on disk and in its buffer and the history file are as before, and
\* every Get returns what it returned before
C20_RejectedPutChangesNothing ==
    [][(last'.op = "Put" /\ last'.err = Immutable) =>
           /\ kf'.Cache = kf.Cache
           /\ kf'.BloomFilter = kf.BloomFilter
           /\ kf'.KeyCnt = kf.KeyCnt /\ kf'.TotalCnt = kf.TotalCnt
           /\ KHeader(kf') = KHeader(kf)
           /\ kf'.File.disk = kf.File.disk /\ kf'.File.Buffer = kf.File.Buffer
           /\ kf'.History = kf.History
           /\ \A key \in ProbeKeys :
                  Found(KFileGet(kf', key)) = Found(GetD(key))]_vars

\* a Put of a key that is in the key file and not in the cache was rejected
C20_Witness ==
    /\ last.op = "Put" /\ last.err = Immutable
    /\ last.key \notin DOMAIN kf.Cache
    /\ GetD(last.key).err = "nil"

\* the keys that have a record in the key file, on disk or in its buffer
LiveKeys(k) == DOMAIN GetKeyList(k).keyValues

\* the key file is a fresh header and nothing else
FreshKeyFile(k) ==
    /\ KHeader(k) = HeaderInit(k.OffsetsCnt)
    /\ k.File.disk = HeaderMarshal(HeaderInit(k.OffsetsCnt))
    /\ k.File.Buffer = <<>>

\* C29: in the KFile that made the Puts, after every Put KeyCnt is at most
\* KeyLimit.  A Put that appends a record when KeyCnt is already KeyLimit
\* spills: afterwards KeyCnt is 0, the cache is empty, the key file is a
\* fresh header and every key that had a record in the key file, the key of
\* the Put included, is in the history file.  A Put that appends a record
\* when KeyCnt is below KeyLimit adds one to KeyCnt and its key to the keys
\* of the key file and leaves the history file alone, and a Put that appends
\* nothing changes none of these
C29_SpillAtKeyLimit ==
    [][(last'.op = "Put" /\ ~panicked' /\ ~reopened) =>
           /\ kf'.KeyCnt <= kf'.KeyLimit
           /\ IF kf'.TotalCnt = kf.TotalCnt
              THEN /\ kf'.KeyCnt = kf.KeyCnt
                   /\ kf'.History = kf.History
                   /\ LiveKeys(kf') = LiveKeys(kf)
              ELSE IF kf.KeyCnt + 1 > kf.KeyLimit
              THEN /\ last'.err = "nil"
                   /\ kf'.KeyCnt = 0
                   /\ kf'.Cache = EmptyCache
                   /\ FreshKeyFile(kf')
                   /\ ~kf'.History.nil
                   /\ \A key \in LiveKeys(kf) \cup {last'.key} :
                          HistoryGet(kf'.History, key).err = "nil"
              ELSE /\ kf'.KeyCnt = kf.KeyCnt + 1
                   /\ kf'.History = kf.History
                   /\ LiveKeys(kf') = LiveKeys(kf) \cup {last'.key}]_vars

\* the key has a record in the key file on disk, behind the header that
\* NewKFile wrote
InKeyFile(key) ==
    \E p \in RecordOffsets([kf EXCEPT !.HeaderSize = HeaderInit(OffsetsCnt).HeaderSize]) :
        SubSeq(kf.File.disk, p + 1, p + KeyWords) = key

\* the key is in the cache, in the key file, or in the history
Stored(key) ==
    \/ key \in DOMAIN kf.Cache
    \/ InKeyFile(key)
    \/ ~kf.History.nil /\ HistoryGet(kf.History, key).err = "nil"

\* C40: while the KFile has a Bloom filter and has not panicked, the filter
\* tests true for every key that is in the cache, in the key file or in the
\* history file
C40_BloomCoversStoredKeys ==
    (~panicked /\ ~kf.BloomFilter.nil) =>
        \A key \in Keys : Stored(key) => BloomTest(kf.BloomFilter, key)

\* ------------------------------------------------------------------------
\* SpecKFileFlush: one KFile, with or without history, whose user also calls
\* Flush
\* ------------------------------------------------------------------------
KFFlush ==
    /\ ~panicked
    /\ \E r \in {KFileFlush(kf)} :
           /\ kf' = r.k
           /\ panicked' = (r.err = "panic")
           /\ last' = KFLast("Flush", nilKey, NewDBBKey(0, 0), r.err, NoD)
    /\ UNCHANGED <<pc, mutex, tasks, fr, okf, bloom, rec, hf, bf, kv, kv2, kvs, written, first, reopened, puts>>

NextKFileFlush ==
    \/ \E key \in Keys, d \in Descriptors : KFPut(key, d)
    \/ \E key \in ProbeKeys : KFGet(key)
    \/ KFClose
    \/ KFOpen
    \/ KFReopen
    \/ KFFlush

SpecKFileFlush == InitKFile /\ [][NextKFileFlush]_vars

\* the cache holds the key with the descriptor of its most recent Put
InCache(key) ==
    key \in DOMAIN kf.Cache /\ kf.Cache[key] = written[key].v

\* the record of the key's most recent Put is in the section of the file
\* that kGet reads for the key's bin
InBin(key) ==
    \E r \in {kGet(kf, key)} : r.err = "nil" /\ r.d = written[key].v

\* the key went to the history file
Spilled(key) ==
    ~kf.History.nil /\ HistoryGet(kf.History, key).err = "nil"

\* C28: in the KFile that made the Puts, every key that was Put and is not
\* in the history file is in the cache with its most recent descriptor, or
\* its most recent record is on disk in the section of the key's bin
C28_PutKeysStayReachable ==
    (~panicked /\ ~reopened) =>
        \A key \in Keys :
            written[key].has => InCache(key) \/ InBin(key) \/ Spilled(key)

\* ------------------------------------------------------------------------
\* SpecKFileIOError: one KFile, with or without history, on a key file whose
\* File.Write can fail
\* ------------------------------------------------------------------------
KFPutWriteFails(key, d) ==
    /\ ~panicked
    /\ puts < MaxKFilePuts
    /\ DBKeyFullSize > BufferSize - EOB(kf.File)
    /\ puts' = puts + 1
    /\ \E r \in {KFilePutWriteFails(kf, key, d)} :
           /\ r.err = IOError
           /\ kf' = r.k
           /\ last' = KFLast("PutWriteFails", key, d, r.err, first[key])
    /\ UNCHANGED <<pc, mutex, tasks, fr, okf, bloom, rec, hf, bf, kv, kv2, kvs, written, first, panicked, reopened>>

NextKFileIOError ==
    \/ \E key \in Keys, d \in Descriptors : KFPut(key, d)
    \/ \E key \in Keys, d \in Descriptors : KFPutWriteFails(key, d)
    \/ \E key \in ProbeKeys : KFGet(key)
    \/ KFClose
    \/ KFOpen
    \/ KFReopen

SpecKFileIOError == InitKFile /\ [][NextKFileIOError]_vars

\* C34: a Put whose append to the key file fails returns the error and
\* leaves the cache as it was: a key the cache did not hold is not in it, a
\* key the cache held is still mapped to the descriptor it was mapped to, and
\* no other entry changes
C34_FailedPutRestoresCache ==
    [][last'.op = "PutWriteFails" =>
           /\ last'.err = IOError
           /\ kf'.Cache = kf.Cache]_vars

\* ------------------------------------------------------------------------
\* SpecNilKey: one KFile, with or without history, whose user also Puts the
\* key of zero bytes
\* ------------------------------------------------------------------------
NilKeys == {nilKey, KeyA, KeyB}

InitNilKey ==
    /\ pc = NoStore /\ mutex = NoStore /\ tasks = NoStore /\ fr = NoStore /\ okf = NoStore
    /\ \E history \in BOOLEAN :
           kf = NewKFile(history, OffsetsCnt, KeyLimit, MaxCachedBlocks)
    /\ bloom = NoStore /\ rec = NoStore
    /\ hf = NoStore /\ bf = NoStore /\ kv = NoStore /\ kv2 = NoStore /\ kvs = NoStore
    /\ written = [key \in NilKeys |-> NoD]
    /\ first = [key \in NilKeys |-> NoD]
    /\ last = KFLast("Init", nilKey, NewDBBKey(0, 0), "nil", NoD)
    /\ panicked = FALSE
    /\ reopened = FALSE
    /\ puts = 0

NextNilKey ==
    \/ \E key \in NilKeys, d \in Descriptors : KFPut(key, d)
    \/ \E key \in NilKeys : KFGet(key)
    \/ KFClose
    \/ KFOpen

SpecNilKey == InitNilKey /\ [][NextNilKey]_vars

\* the key file on disk holds a record of the key
OnDisk(k, key) ==
    \E p \in RecordOffsets(k) : SubSeq(k.File.disk, p + 1, p + KeyWords) = key

\* C36: after a successful Close the key file holds no record of the key of
\* zero bytes and, once opened, Get of that key returns "not found"; the
\* history file never holds it
C36_NilKeyDropped ==
    ~panicked =>
        /\ (last.op = "Close" /\ last.err = "nil") =>
               /\ ~OnDisk(kf, nilKey)
               /\ kf.File.Buffer = <<>>
               /\ KFileGet(KFileOpen(kf), nilKey).err = "not found"
        /\ ~kf.History.nil =>
               /\ HistoryGet(kf.History, nilKey).err = "not found"
               /\ nilKey \notin HistoryChunkKeys(kf.History)

\* a Close has just dropped the record of the key of zero bytes and kept
\* the record of another key
C36_Witness ==
    /\ last.op = "Close" /\ last.err = "nil" /\ ~panicked
    /\ written[nilKey].has
    /\ \E key \in NilKeys \ {nilKey} : written[key].has /\ OnDisk(kf, key)
    /\ ~OnDisk(kf, nilKey)

\* ------------------------------------------------------------------------
\* SpecRewrite: one KFile, with or without history, over MaxRewritePuts Puts.
\* written is the sequence of what the Puts so far did to the key file:
\* "rewrite" for a Put whose Write went to disk and that left BlocksCached
\* at MaxCachedBlocks, "flush" for any other Put whose Write went to disk,
\* "none" for a Put whose Write stayed in the buffer or that wrote nothing.
\* ------------------------------------------------------------------------
InitRewrite ==
    /\ pc = NoStore /\ mutex = NoStore /\ tasks = NoStore /\ fr = NoStore /\ okf = NoStore
    /\ \E history \in BOOLEAN :
           kf = NewKFile(history, OffsetsCnt, KeyLimit, MaxCachedBlocks)
    /\ bloom = NoStore /\ rec = NoStore
    /\ hf = NoStore /\ bf = NoStore /\ kv = NoStore /\ kv2 = NoStore /\ kvs = NoStore
    /\ written = <<>>
    /\ first = [key \in Keys |-> NoD]
    /\ last = KFLast("Init", nilKey, NewDBBKey(0, 0), "nil", NoD)
    /\ panicked = FALSE
    /\ reopened = FALSE
    /\ puts = 0

\* the Write of the Put of (Key, dbBKey) to k went to disk
PutFlushes(k, r, Key, dbBKey) ==
    /\ r.k.TotalCnt = k.TotalCnt + 1
    /\ BFileWrite(k.File, Bytes(dbBKey, Key)).update

PutOutcome(k, r, Key, dbBKey) ==
    IF ~PutFlushes(k, r, Key, dbBKey) THEN "none"
    ELSE IF r.k.BlocksCached = r.k.MaxCachedBlocks THEN "rewrite"
    ELSE "flush"

KFRewritePut(key, d) ==
    /\ ~panicked
    /\ puts < MaxRewritePuts
    /\ puts' = puts + 1
    /\ \E r \in {KFilePut(kf, key, d)} :
           /\ kf' = r.k
           /\ panicked' = (r.err = "panic")
           /\ written' = Append(written, PutOutcome(kf, r, key, d))
           /\ last' = KFLast("Put", key, d, r.err, NoD)
    /\ UNCHANGED <<pc, mutex, tasks, fr, okf, bloom, rec, hf, bf, kv, kv2, kvs, first, reopened>>

NextRewrite ==
    \/ \E key \in Keys, d \in Descriptors : KFRewritePut(key, d)
    \/ KFClose
    \/ KFOpen

SpecRewrite == InitRewrite /\ [][NextRewrite]_vars

\* the Write of the Put that made this step went to disk
StepFlushed == PutFlushes(kf, [k |-> kf'], last'.key, last'.d)

\* the Put that made this step did not push to history
StepKept == kf'.TotalCnt = kf.TotalCnt \/ kf.KeyCnt + 1 <= kf.KeyLimit

\* Close has just sorted the key file: the header covers all of it
Rewritten(k) == k.EndOfList = Len(k.File.disk) /\ k.File.Buffer = <<>>

BlocksCachedInRange ==
    0 <= kf.BlocksCached /\ kf.BlocksCached <= kf.MaxCachedBlocks

\* between two Puts that rewrote, with no rewrite between them, exactly
\* MaxCachedBlocks Puts flushed
RewritesSeparated ==
    \A i, j \in 1..Len(written) :
        (/\ i < j
         /\ written[i] = "rewrite" /\ written[j] = "rewrite"
         /\ \A m \in (i + 1)..(j - 1) : written[m] # "rewrite")
        => Cardinality({m \in (i + 1)..(j - 1) : written[m] = "flush"})
               = kf.MaxCachedBlocks

BloomLast(op, key, ok) == [op |-> op, key |-> key, ok |-> ok]

InitBloom ==
    /\ pc = NoStore /\ mutex = NoStore /\ tasks = NoStore /\ fr = NoStore /\ okf = NoStore
    /\ \E numBytes \in 0..MaxBloomBytes, k \in 1..MaxBloomK :
           bloom = NewBloomFilter(numBytes, k)
    /\ rec = NoStore /\ hf = NoStore /\ bf = NoStore
    /\ kf = NoStore /\ kv = NoStore /\ kv2 = NoStore /\ kvs = NoStore
    /\ written = {}
    /\ first = {}
    /\ last = BloomLast("Init", nilKey, FALSE)
    /\ panicked = FALSE
    /\ reopened = FALSE
    /\ puts = 0

BloomDoSet(key) ==
    /\ ~panicked
    /\ panicked' = ByteMaskPanics(bloom)
    /\ bloom' = IF ByteMaskPanics(bloom) THEN bloom ELSE BloomSet(bloom, key)
    /\ written' = written \cup {key}
    /\ last' = BloomLast("Set", key, ~ByteMaskPanics(bloom))
    /\ UNCHANGED <<pc, mutex, tasks, fr, okf, rec, hf, bf, kf, kv, kv2, kvs, first, reopened, puts>>

BloomDoTest(key) ==
    /\ ~panicked
    /\ panicked' = ByteMaskPanics(bloom)
    /\ last' = BloomLast("Test", key, ~ByteMaskPanics(bloom) /\ BloomTest(bloom, key))
    /\ UNCHANGED <<pc, mutex, tasks, fr, okf, bloom, rec, hf, bf, kf, kv, kv2, kvs, written, first, reopened, puts>>

NextBloom ==
    \/ \E key \in ProbeKeys : BloomDoSet(key)
    \/ \E key \in ProbeKeys : BloomDoTest(key)

SpecBloom == InitBloom /\ [][NextBloom]_vars

\* C24: in a filter of any size and of any number of hash functions, Test
\* of every key Set was called with returns true, in every later state
C24_SetKeysTestTrue ==
    \A key \in written : ~panicked /\ BloomTest(bloom, key)

\* ------------------------------------------------------------------------
\* SpecDBBKey: an address and a DBBKey, the record Bytes makes of them, and
\* what Unmarshal makes of the record
\* ------------------------------------------------------------------------
Addresses == ProbeKeys \cup {nilKey}

\* offsets and lengths on both sides of the bytes of a number
Numbers == {0, 1, Two16 - 1, Two16, MaxNumber}

NoRecord == [address |-> nilKey, d |-> NewDBBKey(0, 0), err |-> "none"]

InitDBBKey ==
    /\ pc = NoStore /\ mutex = NoStore /\ tasks = NoStore /\ fr = NoStore /\ okf = NoStore
    /\ \E address \in Addresses, Offset \in Numbers, Length \in Numbers :
           rec = [address |-> address, d |-> NewDBBKey(Offset, Length),
                  data |-> <<>>, out |-> NoRecord]
    /\ bloom = NoStore /\ hf = NoStore /\ bf = NoStore
    /\ kf = NoStore /\ kv = NoStore /\ kv2 = NoStore /\ kvs = NoStore
    /\ written = {}
    /\ first = {}
    /\ last = [op |-> "Init"]
    /\ panicked = FALSE
    /\ reopened = FALSE
    /\ puts = 0

DoBytes ==
    /\ rec' = [rec EXCEPT !.data = Bytes(rec.d, rec.address)]
    /\ last' = [op |-> "Bytes"]
    /\ UNCHANGED <<pc, mutex, tasks, fr, okf, bloom, hf, bf, kf, kv, kv2, kvs, written, first, panicked, reopened, puts>>

DoUnmarshal ==
    /\ rec' = [rec EXCEPT !.out = Unmarshal(rec.data)]
    /\ last' = [op |-> "Unmarshal"]
    /\ UNCHANGED <<pc, mutex, tasks, fr, okf, bloom, hf, bf, kf, kv, kv2, kvs, written, first, panicked, reopened, puts>>

NextDBBKey ==
    \/ DoBytes
    \/ DoUnmarshal

SpecDBBKey == InitDBBKey /\ [][NextDBBKey]_vars

\* C25: the record Bytes makes of an address and a DBBKey has the length of
\* a record, and Unmarshal of it returns the address, the offset and the
\* length it was made of
C25_UnmarshalInvertsBytes ==
    rec.data # <<>> =>
        /\ Len(rec.data) = DBKeyFullSize
        /\ last.op = "Unmarshal" =>
               rec.out = [address |-> rec.address, d |-> rec.d, err |-> "nil"]

\* a record of an address that is not zero, of an offset of more than two
\* bytes and of another length was decoded
C25_Witness ==
    /\ last.op = "Unmarshal" /\ rec.out.err = "nil"
    /\ rec.address # nilKey
    /\ rec.d.Offset >= Two16
    /\ rec.d.Offset # rec.d.Length /\ rec.d.Length > 0

\* ------------------------------------------------------------------------
\* SpecBFile: one BFile.  written is the sequence of all the words Write
\* accepted; the word at offset i of the file is the number i + 1.
\* ------------------------------------------------------------------------
WriteLens == {1, BufferSize - 1, BufferSize + 1, 2 * BufferSize + 1}
ReadLens == {1, 2, BufferSize + 1}

\* the words of a Write of n words to a file that holds size words
DataAt(size, n) == [i \in 1..n |-> <<0, size + i>>]

BLast(op, offset, n, err, eob) ==
    [op |-> op, offset |-> offset, n |-> n, err |-> err, eob |-> eob]

InitBFile ==
    /\ pc = NoStore /\ mutex = NoStore /\ tasks = NoStore /\ fr = NoStore /\ okf = NoStore
    /\ bf = NewBFile
    /\ bloom = NoStore /\ rec = NoStore
    /\ hf = NoStore /\ kf = NoStore /\ kv = NoStore /\ kv2 = NoStore /\ kvs = NoStore
    /\ written = <<>>
    /\ first = <<>>
    /\ last = BLast("Init", 0, 0, "nil", 0)
    /\ panicked = FALSE
    /\ reopened = FALSE
    /\ puts = 0

BFWrite(n) ==
    /\ puts < MaxBFWrites
    /\ puts' = puts + 1
    /\ bf' = BFileWrite(bf, DataAt(Len(written), n)).b
    /\ written' = written \o DataAt(Len(written), n)
    /\ last' = BLast("Write", Len(written), n, "nil", EOB(bf))
    /\ UNCHANGED <<pc, mutex, tasks, fr, okf, bloom, rec, hf, kf, kv, kv2, kvs, first, panicked, reopened>>

BFFlush ==
    /\ bf' = BFileFlush(bf)
    /\ last' = BLast("Flush", 0, 0, "nil", EOB(bf))
    /\ UNCHANGED <<pc, mutex, tasks, fr, okf, bloom, rec, hf, kf, kv, kv2, kvs, written, first, panicked, reopened, puts>>

BFClose ==
    /\ bf' = BFileClose(bf)
    /\ last' = BLast("Close", 0, 0, "nil", EOB(bf))
    /\ UNCHANGED <<pc, mutex, tasks, fr, okf, bloom, rec, hf, kf, kv, kv2, kvs, written, first, panicked, reopened, puts>>

BFOpen ==
    /\ bf' = BFileOpen(bf)
    /\ last' = BLast("Open", 0, 0, "nil", EOB(bf))
    /\ UNCHANGED <<pc, mutex, tasks, fr, okf, bloom, rec, hf, kf, kv, kv2, kvs, written, first, panicked, reopened, puts>>

BFReadAt(offset, n) ==
    /\ offset >= 0
    /\ \E r \in {BFileReadAt(bf, offset, n)} :
           /\ bf' = r.b
           /\ last' = BLast("ReadAt", offset, n, r.err, EOB(bf))
    /\ UNCHANGED <<pc, mutex, tasks, fr, okf, bloom, rec, hf, kf, kv, kv2, kvs, written, first, panicked, reopened, puts>>

NextBFile ==
    \/ \E n \in WriteLens : BFWrite(n)
    \/ BFFlush
    \/ BFClose
    \/ BFOpen
    \/ \E offset \in (bf.EOD - 1)..(bf.EOD + 1), n \in ReadLens : BFReadAt(offset, n)

SpecBFile == InitBFile /\ [][NextBFile]_vars

\* C17: every ReadAt of a range inside the words written (on disk, in the
\* buffer, or across both) returns exactly the words written there
C17_ReadAtReturnsWritten ==
    \A offset \in 0..Len(written) :
        \A n \in 0..(Len(written) - offset) :
            /\ BFileReadAt(bf, offset, n).err = "nil"
            /\ BFileReadAt(bf, offset, n).data = SubSeq(written, offset + 1, offset + n)

\* a ReadAt across the end of the disk part, after a Write longer than the
\* buffer, returned without error
C17_Witness ==
    /\ last.op = "ReadAt" /\ last.err = "nil"
    /\ last.offset < bf.EOD /\ bf.EOD < last.offset + last.n
    /\ last.offset + last.n <= bf.EOD + EOB(bf)
    /\ Len(written) > 2 * BufferSize

\* C18: the size on disk plus the buffered words is the number of words
\* Write accepted; Flush and Close move the buffered words to disk; EOD never
\* decreases
C18_SizesAddUp ==
    /\ [](bf.EOD + EOB(bf) = Len(written) /\ Len(bf.disk) = bf.EOD)
    /\ [][/\ bf'.EOD >= bf.EOD
          /\ last'.op \in {"Flush", "Close"} =>
                 (EOB(bf') = 0 /\ bf'.EOD = bf.EOD + EOB(bf))]_vars

\* a Flush that moved buffered words behind words already on disk
C18_Witness ==
    /\ last.op = "Flush" /\ last.eob > 0
    /\ bf.EOD > last.eob

\* ------------------------------------------------------------------------
\* SpecWriteAt: one BFile that is written with Write and with WriteAt.
\* written is what the file is to hold: the words Write accepted, with the
\* words of every WriteAt over them.
\* ------------------------------------------------------------------------
WriteAtLens == {1, 2}

\* the words of a WriteAt of n words at offset
DataOver(offset, n) == [i \in 1..n |-> <<1, offset + i>>]

BFWriteAt(offset, n) ==
    /\ offset >= 0
    /\ puts < MaxBFWrites
    /\ puts' = puts + 1
    /\ bf' = BFileWriteAt(bf, offset, DataOver(offset, n))
    /\ written' = Overwrite(written, offset, DataOver(offset, n))
    /\ last' = BLast("WriteAt", offset, n, "nil", EOB(bf))
    /\ UNCHANGED <<pc, mutex, tasks, fr, okf, bloom, rec, hf, kf, kv, kv2, kvs, first, panicked, reopened>>

NextWriteAt ==
    \/ \E n \in WriteLens : BFWrite(n)
    \/ BFFlush
    \/ BFClose
    \/ BFOpen
    \/ \E offset \in (bf.EOD - 1)..(bf.EOD + 1), n \in ReadLens : BFReadAt(offset, n)
    \/ \E offset \in {0, bf.EOD - 1, bf.EOD}, n \in WriteAtLens : BFWriteAt(offset, n)

SpecWriteAt == InitBFile /\ [][NextWriteAt]_vars

\* C26: after a WriteAt the buffer is empty, and every word outside the
\* range of the WriteAt that ReadAt returned before it, ReadAt returns after
\* it, at the same offset
C26_WriteAtKeepsOtherBytes ==
    [][last'.op = "WriteAt" =>
           /\ EOB(bf') = 0
           /\ \A i \in 0..(Len(written) - 1) :
                  (/\ i < last'.offset \/ i >= last'.offset + last'.n
                   /\ BFileReadAt(bf, i, 1).err = "nil"
                   /\ BFileReadAt(bf, i, 1).data = <<written[i + 1]>>) =>
                      /\ BFileReadAt(bf', i, 1).err = "nil"
                      /\ BFileReadAt(bf', i, 1).data = <<written[i + 1]>>]_vars

\* ------------------------------------------------------------------------
\* SpecIOError: one BFile on a file whose File.Write can fail
\* ------------------------------------------------------------------------
BFWriteFails(n) ==
    /\ n > BufferSize - EOB(bf)
    /\ puts < MaxBFWrites
    /\ puts' = puts + 1
    /\ \E r \in {BFileWriteFails(bf, DataAt(Len(written), n))} :
           /\ bf' = r.b
           /\ last' = BLast("Write", Len(written), n, r.err, EOB(bf))
    /\ UNCHANGED <<pc, mutex, tasks, fr, okf, bloom, rec, hf, kf, kv, kv2, kvs, written, first, panicked, reopened>>

BFFlushFails ==
    /\ \E r \in {BFileFlushFails(bf)} :
           /\ bf' = r.b
           /\ last' = BLast("Flush", 0, 0, r.err, EOB(bf))
    /\ UNCHANGED <<pc, mutex, tasks, fr, okf, bloom, rec, hf, kf, kv, kv2, kvs, written, first, panicked, reopened, puts>>

NextIOError ==
    \/ \E n \in WriteLens : BFWrite(n)
    \/ \E n \in WriteLens : BFWriteFails(n)
    \/ BFFlush
    \/ BFFlushFails
    \/ BFClose
    \/ BFOpen
    \/ \E offset \in (bf.EOD - 1)..(bf.EOD + 1), n \in ReadLens : BFReadAt(offset, n)

SpecIOError == InitBFile /\ [][NextIOError]_vars

\* C27: after an operation that failed with an I/O error, a Write, a ReadAt
\* or a Flush fails, as long as the BFile has not been closed and opened
C27_FailureStays ==
    [][(last.err = IOError /\ last'.op \in {"Write", "ReadAt", "Flush"}) =>
           last'.err # "nil"]_vars

\* ------------------------------------------------------------------------
\* SpecHistory: one HistoryFile.  A batch is a sequence of at most MaxBatch
\* different keys, all added with one descriptor.
\* ------------------------------------------------------------------------
Batches ==
    {b \in UNION {[1..n -> Keys] : n \in 1..MaxBatch} :
        \A i, j \in 1..Len(b) : i # j => b[i] # b[j]}

RECURSIVE BatchBytes(_, _)
BatchBytes(b, d) ==
    IF b = <<>> THEN <<>> ELSE Bytes(d, Head(b)) \o BatchBytes(Tail(b), d)

\* failed is TRUE once an AddKeys returned an error
HLast(op, batch, d, err, failed) ==
    [op |-> op, batch |-> batch, d |-> d, err |-> err, failed |-> failed]

InitHistory ==
    /\ pc = NoStore /\ mutex = NoStore /\ tasks = NoStore /\ fr = NoStore /\ okf = NoStore
    /\ hf = NewHistoryFile(OffsetsCnt)
    /\ bloom = NoStore /\ rec = NoStore
    /\ bf = NoStore /\ kf = NoStore /\ kv = NoStore /\ kv2 = NoStore /\ kvs = NoStore
    /\ written = [key \in Keys |-> NoD]
    /\ first = [key \in Keys |-> NoD]
    /\ last = HLast("Init", <<>>, NewDBBKey(0, 0), "nil", FALSE)
    /\ panicked = FALSE
    /\ reopened = FALSE
    /\ puts = 0

InBatch(b, key) == \E i \in 1..Len(b) : b[i] = key

HFAddKeys(b, d) ==
    /\ puts < MaxAddKeys
    /\ puts' = puts + 1
    /\ \E r \in {AddKeys(hf, BatchBytes(b, d))} :
           /\ hf' = r.hf
           /\ written' = [key \in Keys |->
                             IF r.err = "nil" /\ InBatch(b, key) THEN SomeD(d)
                             ELSE written[key]]
           /\ first' = [key \in Keys |->
                           IF r.err = "nil" /\ InBatch(b, key) /\ ~first[key].has
                           THEN SomeD(d) ELSE first[key]]
           /\ last' = HLast("AddKeys", b, d, r.err, last.failed \/ r.err # "nil")
    /\ UNCHANGED <<pc, mutex, tasks, fr, okf, bloom, rec, bf, kf, kv, kv2, kvs, panicked, reopened>>

HFGet(key) ==
    /\ \E r \in {HistoryGet(hf, key)} :
           last' = HLast("Get", <<key>>, r.d, r.err, last.failed)
    /\ UNCHANGED <<pc, mutex, tasks, fr, okf, bloom, rec, hf, bf, kf, kv, kv2, kvs, written, first, panicked, reopened, puts>>

NextHistory ==
    \/ \E b \in Batches, d \in Descriptors : HFAddKeys(b, d)
    \/ \E key \in ProbeKeys : HFGet(key)

SpecHistory == InitHistory /\ [][NextHistory]_vars

\* C15: while every AddKeys was given a batch sorted by bin and succeeded,
\* Get of every key of every batch returns the descriptor added for it (the
\* first, for a key that several batches added), also when a later AddKeys
\* moved the key set of its bin
C15_AddedKeysResolve ==
    ~last.failed =>
        \A key \in Keys :
            first[key].has =>
                /\ HistoryGet(hf, key).err = "nil"
                /\ HistoryGet(hf, key).d = first[key].v

\* two key sets hold keys, the one of the lower bin was moved behind the
\* other, and a Get found a key
C15_Witness ==
    /\ ~last.failed /\ last.op = "Get" /\ last.err = "nil"
    /\ \E i, j \in 1..hf.OffsetCnt :
           /\ i < j
           /\ hf.KeySets[j].Start < hf.KeySets[j].End
           /\ hf.KeySets[j].End <= hf.KeySets[i].Start
           /\ hf.KeySets[i].Start < hf.KeySets[i].End
           /\ HFIndex(hf, last.batch[1]) = i - 1

\* C16: the ranges of two key sets that hold keys are disjoint, and every
\* key set starts at or after the end of the header
C16_KeySetsDisjoint ==
    /\ \A i \in 1..hf.OffsetCnt : hf.KeySets[i].Start >= hf.HeaderSize
    /\ \A i, j \in 1..hf.OffsetCnt :
           (/\ i # j
            /\ hf.KeySets[i].Start < hf.KeySets[i].End
            /\ hf.KeySets[j].Start < hf.KeySets[j].End) =>
               \/ hf.KeySets[i].End <= hf.KeySets[j].Start
               \/ hf.KeySets[j].End <= hf.KeySets[i].Start

\* two key sets hold keys and one of them was moved
C16_Witness ==
    /\ last.op = "AddKeys"
    /\ \E i, j \in 1..hf.OffsetCnt :
           /\ i # j
           /\ hf.KeySets[i].Start < hf.KeySets[i].End
           /\ hf.KeySets[j].Start < hf.KeySets[j].End
           /\ hf.KeySets[i].Start > hf.HeaderSize
           /\ hf.KeySets[j].Start > hf.HeaderSize

\* n more words fit where the key set of bin i is: no other key set starts
\* between its End and its End + n
FitsInPlace(h, i, n) ==
    \A j \in 1..h.OffsetCnt :
        j # i => ~(h.KeySets[i].End <= h.KeySets[j].Start
                    /\ h.KeySets[j].Start < h.KeySets[i].End + n)

KeySetLen(h, i) == h.KeySets[i].End - h.KeySets[i].Start

\* C35: an AddKeys that adds records to the key set of one bin, where they
\* fit in place, leaves the Start of the key set and moves its End by the
\* length of the records
C35_AppendsInPlace ==
    [][(last'.op = "AddKeys" /\ last'.err = "nil") =>
           \A i \in 1..hf.OffsetCnt :
               (/\ \A b \in 1..Len(last'.batch) : HFIndex(hf, last'.batch[b]) = i - 1
                /\ FitsInPlace(hf, i, KeySetLen(hf', i) - KeySetLen(hf, i))) =>
                   /\ hf'.KeySets[i].Start = hf.KeySets[i].Start
                   /\ hf'.KeySets[i].End = hf.KeySets[i].End
                          + Len(last'.batch) * DBKeyFullSize]_vars

\* ------------------------------------------------------------------------
\* SpecKV: one KV, with or without history
\* ------------------------------------------------------------------------
NoV == [has |-> FALSE, v |-> <<>>, dyna |-> FALSE]
SomeV(v, dyna) == [has |-> TRUE, v |-> v, dyna |-> dyna]

\* what a Get returned: the value, or nothing when it returned an error
Got(g) == IF g.err = "nil" THEN SomeV(g.value, FALSE) ELSE NoV

NoGets == [key \in Keys |-> NoV]

KLast(op, key, v, err, writes, before) ==
    [op |-> op, key |-> key, v |-> v, err |-> err, writes |-> writes, before |-> before]

InitGhosts ==
    /\ written = NoGets
    /\ first = NoGets
    /\ last = KLast("Init", nilKey, <<>>, "nil", 0, NoGets)
    /\ panicked = FALSE
    /\ reopened = FALSE
    /\ puts = 0

KVGets(k) == [key \in Keys |-> Got(KVGet(k, key))]

\* The callers open a store after Close or Compress before they use it
\* again; the values file tells whether that has been done.
IsOpen(k) == k.vFile.File

InitKV ==
    /\ pc = NoStore /\ mutex = NoStore /\ tasks = NoStore /\ fr = NoStore /\ okf = NoStore
    /\ \E history \in BOOLEAN : kv = NewKV(history, OffsetsCnt, KeyLimit, MaxCachedBlocks)
    /\ bloom = NoStore /\ rec = NoStore
    /\ hf = NoStore /\ bf = NoStore /\ kf = NoStore /\ kv2 = NoStore /\ kvs = NoStore
    /\ InitGhosts

KVDoPut(key, value) ==
    /\ ~panicked
    /\ IsOpen(kv)
    /\ puts < MaxKVPuts
    /\ puts' = puts + 1
    /\ \E r \in {KVPut(kv, key, value)} :
           /\ kv' = r.k
           /\ panicked' = (r.err = "panic")
           /\ written' = IF r.err = "nil"
                         THEN [written EXCEPT ![key] = SomeV(value, FALSE)] ELSE written
           /\ first' = IF r.err = "nil" /\ ~first[key].has
                       THEN [first EXCEPT ![key] = SomeV(value, FALSE)] ELSE first
           /\ last' = KLast("Put", key, value, r.err, 0, NoGets)
    /\ UNCHANGED <<pc, mutex, tasks, fr, okf, bloom, rec, hf, bf, kf, kv2, kvs, reopened>>

KVDoGet(key) ==
    /\ ~panicked
    /\ IsOpen(kv)
    /\ \E r \in {KVGet(kv, key)} :
           /\ kv' = r.k
           /\ panicked' = (r.err = "panic")
           /\ last' = KLast("Get", key, r.value, r.err, 0, NoGets)
    /\ UNCHANGED <<pc, mutex, tasks, fr, okf, bloom, rec, hf, bf, kf, kv2, kvs, written, first, reopened, puts>>

KVDoClose ==
    /\ ~panicked
    /\ IsOpen(kv)
    /\ \E r \in {KVClose(kv)} :
           /\ kv' = r.k
           /\ panicked' = (r.err = "panic")
           /\ last' = KLast("Close", nilKey, <<>>, r.err, 0, KVGets(kv))
    /\ UNCHANGED <<pc, mutex, tasks, fr, okf, bloom, rec, hf, bf, kf, kv2, kvs, written, first, reopened, puts>>

KVDoOpen ==
    /\ ~panicked
    /\ ~IsOpen(kv)
    /\ kv' = KVOpen(kv)
    /\ last' = KLast("Open", nilKey, <<>>, "nil", 0, NoGets)
    /\ UNCHANGED <<pc, mutex, tasks, fr, okf, bloom, rec, hf, bf, kf, kv2, kvs, written, first, panicked, reopened, puts>>

KVDoCompress ==
    /\ ~panicked
    /\ IsOpen(kv)
    /\ \E r \in {KVCompress(kv)} :
           /\ kv' = r.k
           /\ panicked' = (r.err = "panic")
           /\ last' = KLast("Compress", nilKey, <<>>, r.err, 0, KVGets(kv))
    /\ UNCHANGED <<pc, mutex, tasks, fr, okf, bloom, rec, hf, bf, kf, kv2, kvs, written, first, reopened, puts>>

\* a new process opens the directory the closed KV left: OpenKV, Open
KVReopen ==
    /\ ~panicked
    /\ last.op = "Close" /\ last.err = "nil"
    /\ \E r \in {OpenKV(kv.vFile.disk, kv.kFile.File.disk, kv.kFile.History.File,
                       ~kv.kFile.History.nil)} :
           /\ kv' = IF r.err = "nil" THEN KVOpen(r.k) ELSE r.k
           /\ panicked' = (r.err = "panic")
           /\ last' = KLast("Reopen", nilKey, <<>>, r.err, 0, last.before)
    /\ reopened' = TRUE
    /\ UNCHANGED <<pc, mutex, tasks, fr, okf, bloom, rec, hf, bf, kf, kv2, kvs, written, first, puts>>

NextKV ==
    \/ \E key \in Keys, value \in LongValues : KVDoPut(key, value)
    \/ \E key \in ProbeKeys : KVDoGet(key)
    \/ KVDoClose
    \/ KVDoOpen
    \/ KVDoCompress
    \/ KVReopen

SpecKV == InitKV /\ [][NextKV]_vars

\* C10: after Compress and Open, Get returns, for every key that had a
\* value before the Compress, the same bytes; Compress does not fail on any
\* number of live keys or on any length of value that Put accepted
C10_CompressKeepsValues ==
    (last.op = "Compress" /\ ~reopened) =>
        /\ ~panicked
        /\ \A key \in Keys :
               last.before[key].has => Got(KVGet(KVOpen(kv), key)) = last.before[key]

\* the words of a BFile: what is on disk and what is still in the buffer
Content(b) == b.disk \o b.Buffer

\* the sum of the lengths of the values a family of Gets returned
RECURSIVE SumLen(_, _)
SumLen(gets, keys) ==
    IF keys = {} THEN 0
    ELSE With(CHOOSE x \in keys : TRUE, LAMBDA x :
             (IF gets[x].has THEN Len(gets[x].v) ELSE 0) + SumLen(gets, keys \ {x}))

\* C11: after a Compress that returned no error, the values file is no
\* larger than the sum of the lengths of the values of the keys the store
\* holds: no bytes of overwritten or orphaned values remain
C11_CompressLeavesLiveBytes ==
    (last.op = "Compress" /\ last.err = "nil" /\ ~panicked /\ ~reopened) =>
        Len(Content(kv.vFile)) <= SumLen(KVGets(KVOpen(kv)), Keys)

\* C12: Get returns the bytes of the most recent successful Put of the key,
\* while the store stays open and after Close followed by Open
C12_KVGetReturnsLatestPut ==
    (~reopened /\ ~panicked) =>
        \A key \in Keys :
            written[key].has =>
                /\ KVGet(KVOpen(kv), key).err = "nil"
                /\ KVGet(KVOpen(kv), key).value = written[key].v

\* C19: every descriptor the key file of the KV holds for a key lies inside
\* the values file: offset + length is at most the size on disk plus the
\* buffered words, and at most the size on disk after a Close
C19_DescriptorsInsideValues ==
    (~panicked /\ ~reopened) =>
        \A key \in Keys :
            With(KFileGet(kv.kFile, key), LAMBDA g :
                g.err = "nil" =>
                    /\ g.d.Offset + g.d.Length <= Len(kv.vFile.disk) + EOB(kv.vFile)
                    /\ (last.op = "Close" /\ last.err = "nil") =>
                           g.d.Offset + g.d.Length <= Len(kv.vFile.disk))

\* C23: Get of a key that no Put has written returns "not found" and no
\* value, from the key file and from the KV, as the store is and after Open,
\* also when the Bloom filter holds all the bits of the key
C23_NeverPutNotFound ==
    ~panicked =>
        \A key \in ProbeKeys :
            (key \notin Keys \/ ~first[key].has) =>
                /\ KFileGet(kv.kFile, key).err = "not found"
                /\ KVGet(kv, key).err = "not found" /\ KVGet(kv, key).value = <<>>
                /\ KVGet(KVOpen(kv), key).err = "not found"
                /\ KVGet(KVOpen(kv), key).value = <<>>

\* a Get of the key that is never written found its Bloom bits set, searched
\* the records of its bin in a key file that was rewritten, and missed
C23_Witness ==
    /\ last.op = "Get" /\ last.key = KeyD /\ last.err = "not found"
    /\ BloomTest(kv.kFile.BloomFilter, KeyD)
    /\ BinStart(kv.kFile, OffsetIndex(kv.kFile.OffsetsCnt, KeyD))
           < BinEnd(kv.kFile, OffsetIndex(kv.kFile.OffsetsCnt, KeyD))

\* ------------------------------------------------------------------------
\* SpecKV2: one KV2
\* ------------------------------------------------------------------------
\* what KV2.Get of key returns in the current state
Get2(key) == KV2Get(kv2, key)

\* The callers open a store after Close or Compress before they use it
\* again; the values files tell whether that has been done.
IsOpen2(k) == k.PermKV.vFile.File /\ k.DynaKV.vFile.File

Before(key, g) == [x \in Keys |-> IF x = key THEN Got(g) ELSE NoV]

InitKV2 ==
    /\ pc = NoStore /\ mutex = NoStore /\ tasks = NoStore /\ fr = NoStore /\ okf = NoStore
    /\ kv2 = NewKV2(OffsetsCnt, KeyLimit, MaxCachedBlocks)
    /\ bloom = NoStore /\ rec = NoStore
    /\ hf = NoStore /\ bf = NoStore /\ kf = NoStore /\ kv = NoStore /\ kvs = NoStore
    /\ InitGhosts

KV2DoPut(key, value) ==
    /\ ~panicked
    /\ IsOpen2(kv2)
    /\ puts < MaxKV2Puts
    /\ puts' = puts + 1
    /\ \E r \in {KV2Put(kv2, key, value)} :
           /\ kv2' = r.k
           /\ panicked' = (r.err = "panic")
           /\ written' = IF r.err = "nil"
                         THEN [written EXCEPT ![key] =
                                   SomeV(value, @.dyna \/ r.k.DWrites > kv2.DWrites)]
                         ELSE written
           /\ last' = KLast("Put", key, value, r.err, r.writes, Before(key, Get2(key)))
    /\ UNCHANGED <<pc, mutex, tasks, fr, okf, bloom, rec, hf, bf, kf, kv, kvs, first, reopened>>

\* PutPerm, for a key that no Put has written to Dyna
KV2DoPutPerm(key, value) ==
    /\ ~panicked
    /\ IsOpen2(kv2)
    /\ puts < MaxKV2Puts
    /\ ~written[key].dyna
    /\ puts' = puts + 1
    /\ \E r \in {KV2PutPerm(kv2, key, value)} :
           /\ kv2' = r.k
           /\ panicked' = (r.err = "panic")
           /\ written' = IF r.err = "nil"
                         THEN [written EXCEPT ![key] = SomeV(value, FALSE)]
                         ELSE written
           /\ last' = KLast("PutPerm", key, value, r.err, r.writes,
                            Before(key, KV2GetPerm(kv2, key)))
    /\ UNCHANGED <<pc, mutex, tasks, fr, okf, bloom, rec, hf, bf, kf, kv, kvs, first, reopened>>

KV2DoGet(key) ==
    /\ ~panicked
    /\ IsOpen2(kv2)
    /\ \E r \in {Get2(key)} :
           /\ kv2' = r.k
           /\ panicked' = (r.err = "panic")
           /\ last' = KLast("Get", key, r.value, r.err, 0, NoGets)
    /\ UNCHANGED <<pc, mutex, tasks, fr, okf, bloom, rec, hf, bf, kf, kv, kvs, written, first, reopened, puts>>

KV2DoClose ==
    /\ ~panicked
    /\ IsOpen2(kv2)
    /\ \E r \in {KV2Close(kv2)} :
           /\ kv2' = r.k
           /\ panicked' = (r.err = "panic")
           /\ last' = KLast("Close", nilKey, <<>>, r.err, 0,
                            [key \in Keys |-> Got(Get2(key))])
    /\ UNCHANGED <<pc, mutex, tasks, fr, okf, bloom, rec, hf, bf, kf, kv, kvs, written, first, reopened, puts>>

KV2DoOpen ==
    /\ ~panicked
    /\ ~IsOpen2(kv2)
    /\ kv2' = KV2Open(kv2)
    /\ last' = KLast("Open", nilKey, <<>>, "nil", 0, NoGets)
    /\ UNCHANGED <<pc, mutex, tasks, fr, okf, bloom, rec, hf, bf, kf, kv, kvs, written, first, panicked, reopened, puts>>

KV2DoCompress ==
    /\ ~panicked
    /\ IsOpen2(kv2)
    /\ \E r \in {KV2Compress(kv2)} :
           /\ kv2' = r.k
           /\ panicked' = (r.err = "panic")
           /\ last' = KLast("Compress", nilKey, <<>>, r.err, 0, NoGets)
    /\ UNCHANGED <<pc, mutex, tasks, fr, okf, bloom, rec, hf, bf, kf, kv, kvs, written, first, reopened, puts>>

\* a new process opens the directory the closed KV2 left: OpenKV2, Open
KV2Reopen ==
    /\ ~panicked
    /\ last.op = "Close" /\ last.err = "nil"
    /\ \E r \in {OpenKV2(kv2)} :
           /\ kv2' = IF r.err = "nil" THEN KV2Open(r.k) ELSE r.k
           /\ panicked' = (r.err = "panic")
           /\ last' = KLast("Reopen", nilKey, <<>>, r.err, 0, last.before)
    /\ reopened' = TRUE
    /\ UNCHANGED <<pc, mutex, tasks, fr, okf, bloom, rec, hf, bf, kf, kv, kvs, written, first, puts>>

\* the keys the callers of the KV2 use, and a key they only look for
KV2Keys == {KeyA, KeyB}
KV2ProbeKeys == KV2Keys \cup {KeyD}

NextKV2 ==
    \/ \E key \in KV2Keys, value \in Values : KV2DoPut(key, value)
    \/ \E key \in KV2Keys, value \in Values : KV2DoPutPerm(key, value)
    \/ \E key \in KV2ProbeKeys : KV2DoGet(key)
    \/ KV2DoClose
    \/ KV2DoOpen
    \/ KV2DoCompress
    \/ KV2Reopen

SpecKV2 == InitKV2 /\ [][NextKV2]_vars

\* C6: a key that a Put has written to Dyna, because Perm held another value
\* for it, returns on every Get the value of its most recent Put
C6_PromotedKeyReturnsLatest ==
    (~reopened /\ ~panicked) =>
        \A key \in Keys :
            (written[key].has /\ written[key].dyna) =>
                /\ Get2(key).err = "nil"
                /\ Get2(key).value = written[key].v

\* C7: Get returns the value Dyna holds for the key when Dyna holds one, the
\* value Perm holds when only Perm holds one, and "not found" when neither does
C7_GetPrefersDyna ==
    ~panicked =>
        \A key \in ProbeKeys :
            LET d == KV2GetDyna(kv2, key)
                p == KV2GetPerm(kv2, key)
                g == Get2(key)
            IN  (d.err # "panic" /\ p.err # "panic") =>
                    IF d.err = "nil" THEN g.err = "nil" /\ g.value = d.value
                    ELSE IF p.err = "nil" THEN g.err = "nil" /\ g.value = p.value
                    ELSE g.err = "not found"

\* a Get of a key that Dyna and Perm hold with different values
C7_Witness ==
    /\ last.op = "Get" /\ last.err = "nil"
    /\ KV2GetDyna(kv2, last.key).err = "nil"
    /\ KV2GetPerm(kv2, last.key).err = "nil"
    /\ KV2GetDyna(kv2, last.key).value # KV2GetPerm(kv2, last.key).value
    /\ last.v = KV2GetDyna(kv2, last.key).value

\* C8: a Put of the value Get returns for the key returns no error, leaves
\* the values file, the key file and the history file of both layers as they
\* are, and leaves DWrites and PWrites as they are
C8_SamePutChangesNothing ==
    [][(last'.op = "Put" /\ ~panicked /\ Get2(last'.key).err = "nil"
            /\ Get2(last'.key).value = last'.v) =>
        /\ last'.err = "nil"
        /\ Content(kv2'.PermKV.vFile) = Content(kv2.PermKV.vFile)
        /\ Content(kv2'.DynaKV.vFile) = Content(kv2.DynaKV.vFile)
        /\ Content(kv2'.PermKV.kFile.File) = Content(kv2.PermKV.kFile.File)
        /\ Content(kv2'.DynaKV.kFile.File) = Content(kv2.DynaKV.kFile.File)
        /\ kv2'.PermKV.kFile.History = kv2.PermKV.kFile.History
        /\ kv2'.DWrites = kv2.DWrites
        /\ kv2'.PWrites = kv2.PWrites]_vars

\* a Put that returned no error of the value Get returned before it
C8_Witness ==
    /\ last.op = "Put" /\ last.err = "nil"
    /\ last.before[last.key].has
    /\ last.before[last.key].v = last.v

\* C9: a PutPerm of the value Perm holds for the key returns no error
C9_SamePutPermSucceeds ==
    (last.op = "PutPerm" /\ ~reopened /\ last.before[last.key].has
        /\ last.before[last.key].v = last.v) =>
        last.err = "nil"

\* the Put that made this step wrote a value to this layer
WroteDyna == Content(kv2'.DynaKV.vFile) # Content(kv2.DynaKV.vFile)
WrotePerm == Content(kv2'.PermKV.vFile) # Content(kv2.PermKV.vFile)

\* C33: Put and PutPerm return DWrites; a write to DynaKV adds one to
\* DWrites and leaves PWrites, a write to PermKV adds one to PWrites and
\* leaves DWrites, and a Put that writes to neither leaves both
C33_PutReportsDWrites ==
    [][(last'.op \in {"Put", "PutPerm"} /\ ~panicked') =>
           /\ last'.writes = kv2'.DWrites
           /\ kv2'.DWrites = kv2.DWrites + (IF WroteDyna THEN 1 ELSE 0)
           /\ kv2'.PWrites = kv2.PWrites + (IF WrotePerm THEN 1 ELSE 0)]_vars

\* C21: Compress leaves the values file, the key file and the history file
\* of PermKV as they are, and every key that only PermKV holds returns after
\* the Compress (and Open) the value it returned before
C21_CompressLeavesPerm ==
    [][(last'.op = "Compress" /\ ~panicked') =>
           /\ kv2'.PermKV.vFile = kv2.PermKV.vFile
           /\ kv2'.PermKV.kFile.File = kv2.PermKV.kFile.File
           /\ kv2'.PermKV.kFile.History = kv2.PermKV.kFile.History
           /\ \A key \in ProbeKeys :
                  (KV2GetDyna(kv2, key).err # "nil" /\ KV2GetPerm(kv2, key).err = "nil") =>
                      Got(KV2Get(KV2Open(kv2'), key)) = Got(KV2GetPerm(kv2, key))]_vars

\* a Compress of a KV2 that holds a key in PermKV alone and another in DynaKV
C21_Witness ==
    /\ last.op = "Compress" /\ ~panicked
    /\ \E key \in KV2Keys :
           /\ KV2GetDyna(KV2Open(kv2), key).err = "not found"
           /\ KV2GetPerm(KV2Open(kv2), key).err = "nil"
    /\ \E key \in KV2Keys : KV2GetDyna(KV2Open(kv2), key).err = "nil"

\* ------------------------------------------------------------------------
\* Spec: one KVShard
\* ------------------------------------------------------------------------
\* what KVShard.Get of key returns in the current state
GetS(key) == KVShardGet(kvs, key)

InitKVShard ==
    /\ pc = NoStore /\ mutex = NoStore /\ tasks = NoStore /\ fr = NoStore /\ okf = NoStore
    /\ kvs = NewKVShard(OffsetsCnt, KeyLimit, MaxCachedBlocks)
    /\ bloom = NoStore /\ rec = NoStore
    /\ hf = NoStore /\ bf = NoStore /\ kf = NoStore /\ kv = NoStore /\ kv2 = NoStore
    /\ InitGhosts

Put(key, value) ==
    /\ ~panicked
    /\ puts < MaxShardPuts
    /\ puts' = puts + 1
    /\ \E r \in {KVShardPut(kvs, key, value)} :
           /\ kvs' = r.k
           /\ panicked' = (r.err = "panic")
           /\ written' = IF r.err = "nil"
                         THEN [written EXCEPT ![key] = SomeV(value, FALSE)] ELSE written
           /\ last' = KLast("Put", key, value, r.err, 0, NoGets)
    /\ UNCHANGED <<pc, mutex, tasks, fr, okf, bloom, rec, hf, bf, kf, kv, kv2, first, reopened>>

\* a Put whose inline compress finds that the temporary values file cannot
\* be created
PutCreateFails(key, value) ==
    /\ ~panicked
    /\ puts < MaxShardPuts
    /\ puts' = puts + 1
    /\ \E r \in {KVShardPutCreateFails(kvs, key, value)} :
           /\ r.made = CreateFailed
           /\ kvs' = r.k
           /\ panicked' = (r.err = "panic")
           /\ written' = IF r.err = "nil"
                         THEN [written EXCEPT ![key] = SomeV(value, FALSE)] ELSE written
           /\ last' = KLast("PutCreateFails", key, value, r.err, 0, NoGets)
    /\ UNCHANGED <<pc, mutex, tasks, fr, okf, bloom, rec, hf, bf, kf, kv, kv2, first, reopened>>

Get(key) ==
    /\ ~panicked
    /\ \E r \in {GetS(key)} :
           /\ kvs' = r.k
           /\ panicked' = (r.err = "panic")
           /\ last' = KLast("Get", key, r.value, r.err, 0, NoGets)
    /\ UNCHANGED <<pc, mutex, tasks, fr, okf, bloom, rec, hf, bf, kf, kv, kv2, written, first, reopened, puts>>

Compress ==
    /\ ~panicked
    /\ \E r \in {KVShardCompress(kvs)} :
           /\ kvs' = r.k
           /\ panicked' = (r.err = "panic")
           /\ last' = KLast("Compress", nilKey, <<>>, r.err, 0, NoGets)
    /\ UNCHANGED <<pc, mutex, tasks, fr, okf, bloom, rec, hf, bf, kf, kv, kv2, written, first, reopened, puts>>

Close ==
    /\ ~panicked
    /\ \E r \in {KVShardClose(kvs)} :
           /\ kvs' = r.k
           /\ panicked' = (r.err = "panic")
           /\ last' = KLast("Close", nilKey, <<>>, r.err, 0,
                            [key \in Keys |-> Got(GetS(key))])
    /\ UNCHANGED <<pc, mutex, tasks, fr, okf, bloom, rec, hf, bf, kf, kv, kv2, written, first, reopened, puts>>

\* a new process opens the directory the closed KVShard left: OpenKVShard
Reopen ==
    /\ ~panicked
    /\ last.op = "Close" /\ last.err = "nil"
    /\ \E r \in {OpenKVShard(kvs)} :
           /\ kvs' = r.k
           /\ panicked' = (r.err = "panic")
           /\ last' = KLast("Reopen", nilKey, <<>>, r.err, 0, last.before)
    /\ reopened' = TRUE
    /\ UNCHANGED <<pc, mutex, tasks, fr, okf, bloom, rec, hf, bf, kf, kv, kv2, written, first, puts>>

Next ==
    \/ \E key \in Keys, value \in Values : Put(key, value)
    \/ \E key \in Keys, value \in Values : PutCreateFails(key, value)
    \/ \E key \in ProbeKeys : Get(key)
    \/ Compress
    \/ Close
    \/ Reopen

Spec == InitKVShard /\ [][Next]_vars

\* C1: after any sequence of Puts by one writer, Get of a key returns the
\* value of the most recent Put of that key
C1_GetReturnsLatestPut ==
    (~reopened /\ ~panicked) =>
        \A key \in Keys :
            written[key].has =>
                /\ GetS(key).err = "nil"
                /\ GetS(key).value = written[key].v

\* C5: after Close and a reopening of the directory as a new instance, Get
\* of every key returns the value it returned before the Close
C5_ReopenKeepsValues ==
    last.op = "Reopen" =>
        /\ ~panicked
        /\ \A key \in Keys :
               last.before[key].has => Got(GetS(key)) = last.before[key]

\* C32: after a KVShard.Compress that returned nil, every shard has its
\* write counters at zero and a DynaKV values file no larger than the values
\* its keys hold, and Get of every key returns the value of its latest Put
C32_CompressCompressesShards ==
    (last.op = "Compress" /\ last.err = "nil" /\ ~panicked /\ ~reopened) =>
        /\ \A i \in 1..NumShards :
               /\ kvs.Shards[i].DWrites = 0
               /\ kvs.Shards[i].PWrites = 0
               /\ Len(Content(kvs.Shards[i].DynaKV.vFile))
                      <= SumLen(KVGets(KVOpen(kvs.Shards[i].DynaKV)), Keys)
        /\ \A key \in Keys :
               written[key].has => Got(GetS(key)) = SomeV(written[key].v, FALSE)

\* ------------------------------------------------------------------------
\* SpecShardWrites: one KVShard whose shard 0 is given three keys
\* ------------------------------------------------------------------------
PutKeys == Keys \cup {KeyE}

InitShardWrites ==
    /\ pc = NoStore /\ mutex = NoStore /\ tasks = NoStore /\ fr = NoStore /\ okf = NoStore
    /\ kvs = NewKVShard(OffsetsCnt, KeyLimit, MaxCachedBlocks)
    /\ bloom = NoStore /\ rec = NoStore
    /\ hf = NoStore /\ bf = NoStore /\ kf = NoStore /\ kv = NoStore /\ kv2 = NoStore
    /\ written = [key \in PutKeys |-> NoV]
    /\ first = [key \in PutKeys |-> NoV]
    /\ last = KLast("Init", nilKey, <<>>, "nil", 0, NoGets)
    /\ panicked = FALSE
    /\ reopened = FALSE
    /\ puts = 0

NextShardWrites ==
    \/ \E key \in PutKeys, value \in Values : Put(key, value)
    \/ \E key \in ProbeKeys : Get(key)
    \/ Compress

SpecShardWrites == InitShardWrites /\ [][NextShardWrites]_vars

\* the shard of the key of the Put that made this step, before the step
PutShard == kvs.Shards[ShardIndex(last'.key) + 1]

\* C31: a Put that returns nil compresses the shard of its key exactly when
\* the DWrites of the shard after the write exceed the threshold, and after
\* every Put that returns nil the DWrites of the shard are at most the
\* threshold
C31_CompressAtThreshold ==
    [][(last'.op = "Put" /\ last'.err = "nil") =>
           \E p \in {KV2Put(KV2Open(PutShard), last'.key, last'.v)} :
               /\ (kvs'.Shards[ShardIndex(last'.key) + 1] # p.k)
                      <=> (p.k.DWrites > CompressWrites)
               /\ kvs'.Shards[ShardIndex(last'.key) + 1].DWrites
                      <= CompressWrites]_vars

\* C22: every error the shard of the key makes while it serves a Put is
\* returned by the Put, and a Put changes no shard but the shard of its key
C22_ShardErrorsSurface ==
    [][(last'.op \in {"Put", "PutCreateFails"} /\ ~panicked') =>
           /\ last'.op = "PutCreateFails" => last'.err = CreateFailed
           /\ \A i \in 1..NumShards :
                  i # ShardIndex(last'.key) + 1 => kvs'.Shards[i] = kvs.Shards[i]]_vars
\* ------------------------------------------------------------------------
\* SpecHistoryLock: one KFile with a history, used by two threads.  The
\* thread "push" runs the Puts that spill: it is followed from the statement
\* of PushHistory that locks HistoryMutex.  The thread "get" runs the Gets
\* that miss the cache and the key file: it is followed from the statement
\* of Get that locks HistoryMutex.  An AddKeys may fail with an input/output
\* error, and leaves the history as it was when it does.
\* ------------------------------------------------------------------------
MutexFree == "free"

\* sync.Mutex: Lock returns once no thread holds the mutex
CanLock(m) == m = MutexFree
Lock(m, thread) == thread
Unlock(m) == MutexFree

\* PushHistory when AddKeys returned an error: unlock, then return the error
PushHistoryKeepsLock(m) == m
PushHistoryErrReturn(m) == Unlock(m)

PushIdle == [at |-> "idle", b |-> <<>>, d |-> NewDBBKey(0, 0), err |-> "nil"]
GetIdle == [at |-> "idle", key |-> nilKey, d |-> NewDBBKey(0, 0), err |-> "nil"]

LLast(op, err) == [op |-> op, err |-> err]

InitHistoryLock ==
    /\ pc = [push |-> PushIdle, get |-> GetIdle]
    /\ mutex = MutexFree
    /\ tasks = NoStore /\ fr = NoStore /\ okf = NoStore
    /\ hf = NewHistoryFile(OffsetsCnt)
    /\ bloom = NoStore /\ rec = NoStore
    /\ bf = NoStore /\ kf = NoStore /\ kv = NoStore /\ kv2 = NoStore /\ kvs = NoStore
    /\ written = NoStore
    /\ first = NoStore
    /\ last = LLast("Init", "nil")
    /\ panicked = FALSE
    /\ reopened = FALSE
    /\ puts = 0

\* a Put spills the keys b, all with the descriptor d, and reaches the Lock
PushBegin(b, d) ==
    /\ pc.push.at = "idle"
    /\ puts < MaxPushes
    /\ puts' = puts + 1
    /\ pc' = [pc EXCEPT !.push = [at |-> "Lock", b |-> b, d |-> d, err |-> "nil"]]
    /\ UNCHANGED <<mutex, tasks, fr, okf, bloom, rec, hf, bf, kf, kv, kv2, kvs, written, first, last, panicked, reopened>>

\* k.HistoryMutex.Lock() returns and History.AddKeys is called
PushLock ==
    /\ pc.push.at = "Lock"
    /\ CanLock(mutex)
    /\ mutex' = Lock(mutex, "push")
    /\ pc' = [pc EXCEPT !.push.at = "AddKeys"]
    /\ UNCHANGED <<tasks, fr, okf, bloom, rec, hf, bf, kf, kv, kv2, kvs, written, first, last, panicked, reopened, puts>>

\* History.AddKeys returns
PushAddKeys ==
    /\ pc.push.at = "AddKeys"
    /\ \E r \in {AddKeys(hf, BatchBytes(pc.push.b, pc.push.d))} :
           /\ hf' = r.hf
           /\ pc' = [pc EXCEPT !.push.at = "Unlock", !.push.err = r.err]
    /\ UNCHANGED <<mutex, tasks, fr, okf, bloom, rec, bf, kf, kv, kv2, kvs, written, first, last, panicked, reopened, puts>>

\* History.AddKeys returns an input/output error
PushAddKeysFails ==
    /\ pc.push.at = "AddKeys"
    /\ pc' = [pc EXCEPT !.push.at = "UnlockErr", !.push.err = IOError]
    /\ UNCHANGED <<mutex, tasks, fr, okf, bloom, rec, hf, bf, kf, kv, kv2, kvs, written, first, last, panicked, reopened, puts>>

\* k.HistoryMutex.Unlock() and the return of PushHistory
PushUnlock ==
    /\ pc.push.at \in {"Unlock", "UnlockErr"}
    /\ mutex' = IF pc.push.err = "nil" THEN Unlock(mutex)
                ELSE PushHistoryErrReturn(mutex)
    /\ pc' = [pc EXCEPT !.push = PushIdle]
    /\ last' = LLast("PushHistory", pc.push.err)
    /\ UNCHANGED <<tasks, fr, okf, bloom, rec, hf, bf, kf, kv, kv2, kvs, written, first, panicked, reopened, puts>>

\* a Get of key misses the cache and the key file and reaches the Lock
GetBegin(key) ==
    /\ pc.get.at = "idle"
    /\ pc' = [pc EXCEPT !.get = [at |-> "Lock", key |-> key,
                                 d |-> NewDBBKey(0, 0), err |-> "nil"]]
    /\ UNCHANGED <<mutex, tasks, fr, okf, bloom, rec, hf, bf, kf, kv, kv2, kvs, written, first, last, panicked, reopened, puts>>

\* k.HistoryMutex.Lock() returns and History.Get is called
GetLock ==
    /\ pc.get.at = "Lock"
    /\ CanLock(mutex)
    /\ mutex' = Lock(mutex, "get")
    /\ pc' = [pc EXCEPT !.get.at = "HistoryGet"]
    /\ UNCHANGED <<tasks, fr, okf, bloom, rec, hf, bf, kf, kv, kv2, kvs, written, first, last, panicked, reopened, puts>>

\* History.Get returns
GetHistoryGet ==
    /\ pc.get.at = "HistoryGet"
    /\ \E r \in {HistoryGet(hf, pc.get.key)} :
           pc' = [pc EXCEPT !.get.at = "Return", !.get.d = r.d, !.get.err = r.err]
    /\ UNCHANGED <<mutex, tasks, fr, okf, bloom, rec, hf, bf, kf, kv, kv2, kvs, written, first, last, panicked, reopened, puts>>

\* the deferred k.HistoryMutex.Unlock() and the return of Get
GetReturn ==
    /\ pc.get.at = "Return"
    /\ mutex' = Unlock(mutex)
    /\ pc' = [pc EXCEPT !.get = GetIdle]
    /\ last' = LLast("Get", pc.get.err)
    /\ UNCHANGED <<tasks, fr, okf, bloom, rec, hf, bf, kf, kv, kv2, kvs, written, first, panicked, reopened, puts>>

NextHistoryLock ==
    \/ \E b \in Batches, d \in Descriptors : PushBegin(b, d)
    \/ PushLock
    \/ PushAddKeys
    \/ PushAddKeysFails
    \/ PushUnlock
    \/ \E key \in ProbeKeys : GetBegin(key)
    \/ GetLock
    \/ GetHistoryGet
    \/ GetReturn

SpecHistoryLock == InitHistoryLock /\ [][NextHistoryLock]_vars

InAddKeys == pc.push.at \in {"AddKeys", "Unlock", "UnlockErr"}
InHistoryGet == pc.get.at \in {"HistoryGet", "Return"}

\* C37: History.AddKeys and History.Get never run at the same time: from the
\* call of AddKeys to the Unlock that follows it the pushing thread holds
\* HistoryMutex, from the call of History.Get to the deferred Unlock the
\* getting thread holds it, and no thread holds it once both have returned,
\* whether AddKeys failed or not
C37_HistoryLockExcludes ==
    /\ ~(InAddKeys /\ InHistoryGet)
    /\ InAddKeys <=> mutex = "push"
    /\ InHistoryGet <=> mutex = "get"

\* a Get reads the history while a spill waits for the lock, after an
\* AddKeys that failed
C37_Witness ==
    /\ pc.get.at = "HistoryGet"
    /\ pc.push.at = "Lock"
    /\ last = LLast("PushHistory", IOError)

\* ------------------------------------------------------------------------
\* SpecAsyncPush: the KFile of database/kfile.go, whose PushHistory hands the
\* keys to a goroutine.  One thread calls Put; every goroutine that
\* PushHistory started runs beside it, statement by statement.  The key file
\* and the history are kept as what they hold, key by key: File is every
\* record written since the last spill, the buffered ones included.  The
\* cache and the offsets table are left out.  The generator fr is the
\* sequence of numbers it returns, one of every sequence of FrLen numbers,
\* and how many of them it has returned.
\* ------------------------------------------------------------------------
NoKeys == [key \in Keys |-> NoD]

FrSeqs == [1..FrLen -> 0..(KeyBreak - 1)]

NewFastRandom(seq) == [seq |-> seq, n |-> 0]

\* FastRandom.UintN: Step, then state % N
UintN(f, N) == [f |-> [f EXCEPT !.n = @ + 1], v |-> f.seq[f.n + 1] % N]

\* KFile.Put of database/kfile.go: count the key, write the record, and when
\* KeyCnt is over the number drawn, PushHistory: the keys of the file go to
\* a goroutine and the file starts empty
ShouldPush(KeyCnt, v) == KeyCnt > MinKeys + v

PutAsync(k, f, Key, dbBKey) ==
    With(UintN(f, KeyBreak), LAMBDA r :
        IF ShouldPush(k.KeyCnt + 1, r.v)
        THEN [k |-> [k EXCEPT !.KeyCnt = 0, !.File = NoKeys],
              f |-> r.f, push |-> TRUE,
              keyValues |-> [k.File EXCEPT ![Key] = SomeD(dbBKey)]]
        ELSE [k |-> [k EXCEPT !.KeyCnt = @ + 1, !.File[Key] = SomeD(dbBKey)],
              f |-> r.f, push |-> FALSE, keyValues |-> NoKeys])

NewKFileAsync == [KeyCnt |-> 0, File |-> NoKeys, History |-> NoKeys]

ALast(op, key, push) == [op |-> op, key |-> key, push |-> push]

InitAsyncPush ==
    /\ pc = NoStore
    /\ mutex = MutexFree
    /\ tasks = {}
    /\ \E seq \in FrSeqs : fr = NewFastRandom(seq)
    /\ okf = NewKFileAsync
    /\ bloom = NoStore /\ rec = NoStore /\ hf = NoStore
    /\ bf = NoStore /\ kf = NoStore /\ kv = NoStore /\ kv2 = NoStore /\ kvs = NoStore
    /\ written = NoStore
    /\ first = NoStore
    /\ last = ALast("Init", nilKey, FALSE)
    /\ panicked = FALSE
    /\ reopened = FALSE
    /\ puts = 0

KFPutAsync(key, d) ==
    /\ puts < MaxAsyncPuts
    /\ fr.n < FrLen
    /\ puts' = puts + 1
    /\ \E r \in {PutAsync(okf, fr, key, d)} :
           /\ okf' = r.k
           /\ fr' = r.f
           /\ tasks' = IF r.push
                       THEN tasks \cup {[id |-> puts + 1, at |-> "Lock",
                                         keyValues |-> r.keyValues]}
                       ELSE tasks
           /\ last' = ALast("Put", key, r.push)
    /\ UNCHANGED <<pc, mutex, bloom, rec, hf, bf, kf, kv, kv2, kvs, written, first, panicked, reopened>>

\* the goroutine of PushHistory: k.HistoryMutex.Lock()
PushTaskLock(t) ==
    /\ t.at = "Lock"
    /\ CanLock(mutex)
    /\ mutex' = Lock(mutex, "goroutine")
    /\ tasks' = (tasks \ {t}) \cup {[t EXCEPT !.at = "Write"]}
    /\ UNCHANGED <<pc, fr, okf, bloom, rec, hf, bf, kf, kv, kv2, kvs, written, first, last, panicked, reopened, puts>>

\* the goroutine of PushHistory: open the history and write every key
PushTaskWrite(t) ==
    /\ t.at = "Write"
    /\ okf' = [okf EXCEPT !.History =
                  [key \in Keys |-> IF t.keyValues[key].has THEN t.keyValues[key]
                                    ELSE okf.History[key]]]
    /\ tasks' = (tasks \ {t}) \cup {[t EXCEPT !.at = "Unlock"]}
    /\ UNCHANGED <<pc, mutex, fr, bloom, rec, hf, bf, kf, kv, kv2, kvs, written, first, last, panicked, reopened, puts>>

\* the goroutine of PushHistory: k.HistoryMutex.Unlock(), and it ends
PushTaskUnlock(t) ==
    /\ t.at = "Unlock"
    /\ mutex' = Unlock(mutex)
    /\ tasks' = tasks \ {t}
    /\ UNCHANGED <<pc, fr, okf, bloom, rec, hf, bf, kf, kv, kv2, kvs, written, first, last, panicked, reopened, puts>>

NextAsyncPush ==
    \/ \E key \in Keys, d \in Descriptors : KFPutAsync(key, d)
    \/ \E t \in tasks : PushTaskLock(t)
    \/ \E t \in tasks : PushTaskWrite(t)
    \/ \E t \in tasks : PushTaskUnlock(t)

SpecAsyncPush == InitAsyncPush /\ [][NextAsyncPush]_vars

\* C38: at most one history push of the KFile is in flight at any time
C38_OnePushInFlight == Cardinality(tasks) <= 1

\* ------------------------------------------------------------------------
\* SpecShardThreads: the KVShard of database/kv_shard.go over the KFile of
\* database/kfile.go, one thread for every shard.  A thread puts and gets
\* keys of its own shard only.  A shard is kept as the KFile that a Put of
\* the shard reaches; History is the keys its PushHistory handed over.  The
\* generator fr is the one variable of the package that every KFile.Put
\* calls.  A thread is followed into fr.UintN and out of it: two threads
\* inside it at the same time race on its fields, and the numbers it returns
\* from then on are any numbers.
\*   written  for every shard, the Puts made on it, in their order
\*   first    the sequence of the generator at the start
\* ------------------------------------------------------------------------
Threads == 0..(NumShards - 1)

ShardKeys(s) == {key \in Keys : ShardIndex(key) = s}

ThreadIdle == [at |-> "idle", key |-> nilKey, d |-> NewDBBKey(0, 0), raced |-> FALSE]

\* the shard after a Put that handed r.keyValues to a goroutine, or none
Handed(r) ==
    [r.k EXCEPT !.History =
        [key \in Keys |-> IF r.keyValues[key].has THEN r.keyValues[key]
                          ELSE r.k.History[key]]]

\* the sequences that return what f has returned so far
SameSoFar(f) == {seq \in FrSeqs : \A i \in 1..f.n : seq[i] = f.seq[i]}

InitShardThreads ==
    /\ pc = [t \in Threads |-> ThreadIdle]
    /\ mutex = NoStore
    /\ tasks = NoStore
    /\ \E seq \in FrSeqs : fr = NewFastRandom(seq) /\ first = seq
    /\ okf = [s \in Threads |-> NewKFileAsync]
    /\ bloom = NoStore /\ rec = NoStore /\ hf = NoStore
    /\ bf = NoStore /\ kf = NoStore /\ kv = NoStore /\ kv2 = NoStore /\ kvs = NoStore
    /\ written = [s \in Threads |-> <<>>]
    /\ last = ALast("Init", nilKey, FALSE)
    /\ panicked = FALSE
    /\ reopened = FALSE
    /\ puts = 0

\* KVShard.Put on the thread t, up to the call of fr.UintN in KFile.Put
ShardPutBegin(t, key, d) ==
    /\ pc[t].at = "idle"
    /\ ShardIndex(key) = t
    /\ puts < MaxThreadPuts
    /\ fr.n < FrLen
    /\ puts' = puts + 1
    /\ \E inside \in {{u \in Threads : pc[u].at = "UintN"}} :
           pc' = [u \in Threads |->
                     IF u = t THEN [at |-> "UintN", key |-> key, d |-> d,
                                    raced |-> inside # {}]
                     ELSE IF u \in inside THEN [pc[u] EXCEPT !.raced = TRUE]
                     ELSE pc[u]]
    /\ UNCHANGED <<mutex, tasks, fr, okf, bloom, rec, hf, bf, kf, kv, kv2, kvs, written, first, last, panicked, reopened>>

\* KVShard.Put on the thread t, from the return of fr.UintN
ShardPutEnd(t) ==
    /\ pc[t].at = "UintN"
    /\ \E seq \in (IF pc[t].raced THEN SameSoFar(fr) ELSE {fr.seq}) :
         \E r \in {PutAsync(okf[t], [fr EXCEPT !.seq = seq], pc[t].key, pc[t].d)} :
           /\ okf' = [okf EXCEPT ![t] = Handed(r)]
           /\ fr' = r.f
           /\ last' = ALast("Put", pc[t].key, r.push)
    /\ written' = [written EXCEPT ![t] = Append(@, <<pc[t].key, pc[t].d>>)]
    /\ pc' = [pc EXCEPT ![t] = ThreadIdle]
    /\ UNCHANGED <<mutex, tasks, bloom, rec, hf, bf, kf, kv, kv2, kvs, first, panicked, reopened, puts>>

\* KVShard.Get on the thread t
ShardGet(t, key) ==
    /\ pc[t].at = "idle"
    /\ ShardIndex(key) = t
    /\ last' = ALast("Get", key, okf[t].File[key].has)
    /\ UNCHANGED <<pc, mutex, tasks, fr, okf, bloom, rec, hf, bf, kf, kv, kv2, kvs, written, first, panicked, reopened, puts>>

NextShardThreads ==
    \/ \E t \in Threads, key \in Keys, d \in Descriptors : ShardPutBegin(t, key, d)
    \/ \E t \in Threads : ShardPutEnd(t)
    \/ \E t \in Threads, key \in Keys : ShardGet(t, key)

SpecShardThreads == InitShardThreads /\ [][NextShardThreads]_vars

\* the shard that the Puts of ops make, run alone on a new store
RECURSIVE RunAlone(_, _, _)
RunAlone(k, f, ops) ==
    IF ops = <<>> THEN k
    ELSE With(PutAsync(k, f, Head(ops)[1], Head(ops)[2]), LAMBDA r :
             RunAlone(Handed(r), r.f, Tail(ops)))

\* C39: whenever a thread is between two operations, its shard is in the
\* state that the Puts made on that shard, run alone in their order, produce
C39_ShardsIndependent ==
    \A t \in Threads :
        pc[t].at = "idle" =>
            okf[t] = RunAlone(NewKFileAsync, NewFastRandom(first), written[t])

====
